---- MODULE Spec2Model ----
(***************************************************************************)
(* Model of the mx-dashboard client: the rental income panel (rates, logs, *)
(* range totals, the 12-month series), the older rental panel that edits   *)
(* logs through getRateForDate, and the aircraft page's derived figures    *)
(* (hours flown, per-hour costs, benchmark comparison).                    *)
(*                                                                         *)
(* Conventions.  A JavaScript value that may be null or NaN is a record    *)
(* (Null, NaN, Num(n)).  Money and hours are whole units, so a quotient is *)
(* kept as an exact fraction [num, den]; floating-point rounding is not    *)
(* modelled.  A YYYY-MM-DD string is the integer YYYYMMDD, whose integer   *)
(* order is the lexicographic order of the fixed-width strings; NoDate is  *)
(* the empty / null date.  A form text is a sequence of characters.        *)
(***************************************************************************)
EXTENDS Integers, Sequences, FiniteSets, TLC

VARIABLES
    dbRates,        \* table aircraft_rental_rates, in insertion order
    dbLogs,         \* table aircraft_rental_logs, in insertion order
    dbMaintenance,  \* table maintenance_entries, in insertion order
    nextLogId,      \* next id the backend gives a rental log
    today,          \* ymd(new Date())
    loading,        \* page.tsx panel: loading
    rates,          \* page.tsx panel: rates
    logs,           \* page.tsx panel: logs
    maintenance,    \* page.tsx panel: maintenance
    err,            \* page.tsx panel: err
    myRole,         \* page.tsx panel: the myRole prop
    showRateModal,  \* page.tsx panel: showRateModal
    showLogModal,   \* page.tsx panel: showLogModal
    logRate,        \* page.tsx panel: logRate, the text of the log modal's rate field
    view,           \* page.tsx panel: view
    selectedYear,   \* page.tsx panel: selectedYear
    selectedMonth0, \* page.tsx panel: selectedMonth0
    pLoading,       \* RentalRevenuePanel.tsx: loading
    pCurrentRate,   \* RentalRevenuePanel.tsx: currentRate
    pLogs,          \* RentalRevenuePanel.tsx: logs
    pError,         \* RentalRevenuePanel.tsx: error
    logOpen,        \* RentalRevenuePanel.tsx: logOpen
    rateOpen,       \* RentalRevenuePanel.tsx: rateOpen
    editOpen,       \* RentalRevenuePanel.tsx: editOpen
    editRow,        \* RentalRevenuePanel.tsx: editRow
    dbBenchmarks,   \* table maintenance_benchmarks (the C172 rows)
    dbSums,         \* tables operating_expenses, operating_costs, rental_income,
                    \* rental_revenue, by name
    dbMember,       \* the role of the user from app_admins / aircraft_members
    dbSettings,     \* the row of the aircraft in aircraft_settings, or Null
    dbOp,           \* table aircraft_operating_expenses
    dbAircraft,     \* the row of the aircraft in table aircraft, or NoAircraft
    mxLoading,      \* aircraft page: loading
    entries,        \* aircraft page: entries
    mxError,        \* aircraft page: error
    mxRole,         \* aircraft page: myRole
    operatingTotalAllTime, \* aircraft page: operatingTotalAllTime
    rentalTotalAllTime,    \* aircraft page: rentalTotalAllTime
    benchmark,      \* aircraft page: benchmark
    aircraft,       \* aircraft page: aircraft
    roleLoading,    \* aircraft page: roleLoading
    queried,        \* the tables the last loadAll sent a query to
    saving,         \* aircraft page: saving
    entryDate,      \* aircraft page: entryDate, the text of the add form's date field
    amount,         \* aircraft page: amount, the text of the add form's amount field
    tachHours,      \* aircraft page: tachHours, the text of the add form's tach field
    editingId,      \* aircraft page: editingId
    mxEditDate,     \* aircraft page: mxEditDate
    editAmount,     \* aircraft page: editAmount
    editTach,       \* aircraft page: editTach
    pending,        \* the write sent to maintenance_entries and not answered yet
    aiLoading,      \* AllInCostPanel.tsx: loading
    settings,       \* AllInCostPanel.tsx: settings
    op,             \* AllInCostPanel.tsx: op
    aiErr,          \* AllInCostPanel.tsx: err
    tzWest,         \* whether local time is behind UTC
    spendView,      \* aircraft page: spendView
    spendYear,      \* aircraft page: spendYear
    spendMonth,     \* aircraft page: spendMonth
    chartView,      \* MonthlyCostChart.tsx: view
    trendView,      \* CostPerHourTrendChart: view
    memo,           \* the values the useMemo hooks and the log table last computed
    dbFleet,        \* table aircraft, in insertion order
    dbMemberships,  \* table aircraft_members
    homeUserId,     \* home page: userId
    homeIsAdmin,    \* home page: isAdmin
    homeAircraft,   \* home page: aircraft
    homeLoading,    \* home page: loading
    homeError,      \* home page: error
    homeSaving,     \* home page: saving
    homeYear,       \* home page: year, the text of the form's year field
    panelRole,      \* MembersPanel: the myRole prop, by browser session
    members,        \* MembersPanel: members, by browser session
    membersErr,     \* MembersPanel: err, by browser session
    confirmOpen,    \* MembersPanel: confirmOpen, by browser session
    confirmAction,  \* MembersPanel: confirmAction, by browser session
    authSession,    \* whether supabase.auth holds a session in the browser
    location,       \* the URL of the tab: its path and its query string
    effectPending,  \* whether the mount effect of the page shown has yet to run
    inviteLoading,  \* InviteAcceptPage: loading
    inviteError,    \* InviteAcceptPage: error
    acceptCalls,    \* the calls of rpc accept_aircraft_invite the backend received
    loginComponent, \* the component behind /login: "LoginPage" (part_010),
                    \* "LoginClient" (LoginClient.tsx) or "LoginClient/part_001"
    loginError,     \* login page: error
    email,          \* PasswordLoginBox: email
    password,       \* PasswordLoginBox: password
    acceptedTerms,  \* PasswordLoginBox: acceptedTerms
    mode,           \* PasswordLoginBox: mode
    busy,           \* PasswordLoginBox: busy
    authPending,    \* the call of supabase.auth that handleSubmit awaits
    authCalls       \* the calls of signInWithPassword and signUp that were made

pageVars == <<loading, rates, logs, maintenance, err, myRole, showRateModal,
              showLogModal, logRate, view, selectedYear, selectedMonth0>>
dbVars == <<dbRates, dbLogs, dbMaintenance, nextLogId, today>>
panelVars == <<pLoading, pCurrentRate, pLogs, pError, logOpen, rateOpen, editOpen,
               editRow>>
mxDbVars == <<dbBenchmarks, dbSums, dbMember, dbSettings, dbOp, dbAircraft>>
accessVars == <<aircraft, roleLoading, queried>>
entryFormVars == <<saving, entryDate, amount, tachHours, editingId, mxEditDate,
                   editAmount, editTach, pending>>
aircraftVars == <<mxLoading, entries, mxError, mxRole, operatingTotalAllTime,
                  rentalTotalAllTime, benchmark, accessVars, entryFormVars>>
allInVars == <<aiLoading, settings, op, aiErr>>
chartVars == <<tzWest, spendView, spendYear, spendMonth, chartView, trendView>>
homeVars == <<dbFleet, dbMemberships, homeUserId, homeIsAdmin, homeAircraft,
              homeLoading, homeError, homeSaving, homeYear>>
memberVars == <<panelRole, members, membersErr, confirmOpen, confirmAction>>
inviteVars == <<authSession, location, effectPending, inviteLoading, inviteError,
                acceptCalls, loginComponent, loginError, email, password, acceptedTerms,
                mode, busy, authPending, authCalls>>
siteVars == <<homeVars, memberVars, inviteVars>>
mxVars == <<mxDbVars, aircraftVars, allInVars, chartVars, memo, siteVars>>
vars == <<dbVars, pageVars, panelVars, mxVars>>

----------------------------------------------------------------------------
(* JavaScript values *)

Null == [k |-> "null"]
NaN == [k |-> "nan"]
Num(n) == [k |-> "num", n |-> n]
IsNum(v) == v.k = "num"

\* !v for a number-or-null value: 0, NaN and null are falsy
Falsy(v) == v = Null \/ v = NaN \/ v = Num(0)

\* Number(v) || 0 for a stored column value
NumberOr0(v) == IF IsNum(v) THEN v.n ELSE 0

Digits == <<"0", "1", "2", "3", "4", "5", "6", "7", "8", "9">>
IsDigit(c) == \E i \in 1..10 : Digits[i] = c
DigitValue(c) == (CHOOSE i \in 1..10 : Digits[i] = c) - 1

RECURSIVE DigitsValue(_, _)
DigitsValue(t, acc) ==
    IF t = <<>> THEN acc
    ELSE DigitsValue(Tail(t), acc * 10 + DigitValue(Head(t)))

AllDigits(t) == t # <<>> /\ \A i \in 1..Len(t) : IsDigit(t[i])

\* Number(text) for the text of a form field
Number(t) ==
    IF t = <<>> THEN Num(0)
    ELSE IF AllDigits(t) THEN Num(DigitsValue(t, 0))
    ELSE IF Head(t) = "-" /\ AllDigits(Tail(t)) THEN Num(0 - DigitsValue(Tail(t), 0))
    ELSE NaN

----------------------------------------------------------------------------
(* Dates *)

NoDate == 0

IsLeap(y) == (y % 4 = 0 /\ y % 100 # 0) \/ y % 400 = 0

DaysInMonth(y, m0) ==
    CASE m0 = 1 -> IF IsLeap(y) THEN 29 ELSE 28
      [] m0 \in {3, 5, 8, 10} -> 30
      [] OTHER -> 31

\* new Date(year, month0, day): a month past December carries into the year,
\* day 0 is the last day of the month before
NewDate(y, m0, d) ==
    LET yy == y + (m0 \div 12)
        mm == m0 % 12
        py == IF mm = 0 THEN yy - 1 ELSE yy
        pm == IF mm = 0 THEN 11 ELSE mm - 1
    IN  IF d >= 1 THEN [y |-> yy, m0 |-> mm, d |-> d]
        ELSE [y |-> py, m0 |-> pm, d |-> DaysInMonth(py, pm) + d]

ymd(date) == date.y * 10000 + (date.m0 + 1) * 100 + date.d
firstOfMonth(year, month0) == NewDate(year, month0, 1)

\* a month that ends on the first day of the next
lastOfMonthOverlapping(year, month0) == NewDate(year, month0 + 1, 1)

lastOfMonth(year, month0) == NewDate(year, month0 + 1, 0)

----------------------------------------------------------------------------
(* Bounds and the inputs the actions draw from *)

MaxRates == 3
MaxFrameRates == 2
MaxLogs == 2

Todays == {20250601, 20241231}
RateDates == {NoDate, 20250101, 20250301, 20250701, 20260101}
LogDates == {NoDate, 20250305, 20250710}
RateTexts == {<<>>, <<"a">>, <<"-", "5">>, <<"1", "0", "0">>, <<"2", "0", "0">>}
HoursTexts == {<<>>, <<"x">>, <<"2">>, <<"3">>}
LogRateTexts == {<<>>, <<"a">>, <<"0">>, <<"1", "5", "0">>}
Roles == {"owner", "member"}

NoErr == "<null>"
BackendError == "backend error"

----------------------------------------------------------------------------
(* The backend's order by <column> ascending, and Array.prototype.sort with *)
(* a comparator on one field: both stable here                              *)

InsertAsc(s, r, f) ==
    LET k == Cardinality({i \in 1..Len(s) : s[i][f] <= r[f]})
    IN  SubSeq(s, 1, k) \o <<r>> \o SubSeq(s, k + 1, Len(s))

RECURSIVE SortAsc(_, _)
SortAsc(s, f) ==
    IF s = <<>> THEN <<>>
    ELSE InsertAsc(SortAsc(SubSeq(s, 1, Len(s) - 1), f), s[Len(s)], f)

----------------------------------------------------------------------------
(* Rental income panel (page.tsx): rates *)

\* select ... from aircraft_rental_rates order by effective_from ascending
SelectRates(table) == SortAsc(table, "effective_from")

\* select ... from aircraft_rental_logs order by rental_date ascending
SelectLogs(table) == SortAsc(table, "rental_date")

\* currentRate without the effective_from <= today filter
currentRateUnfiltered(rs, day) ==
    IF rs = <<>> THEN Null
    ELSE LET usable == SortAsc(rs, "effective_from")
         IN  usable[Len(usable)]

\* the currentRate memo, for the rates held and the day it is computed on
currentRate(rs, day) ==
    IF rs = <<>> THEN Null
    ELSE LET usable == SortAsc(SelectSeq(rs, LAMBDA r : r.effective_from <= day),
                               "effective_from")
         IN  IF usable # <<>> THEN usable[Len(usable)] ELSE rs[Len(rs)]

\* String(n) for an integer
RECURSIVE NatString(_)
NatString(n) ==
    IF n < 10 THEN <<Digits[n + 1]>>
    ELSE NatString(n \div 10) \o <<Digits[(n % 10) + 1]>>

String(n) == IF n < 0 THEN <<"-">> \o NatString(0 - n) ELSE NatString(n)

\* the effect that seeds logRate: it runs after a render in which showLogModal
\* or currentRate changed, and keeps a text that is not empty
SeedLogRate(show, cur, rs, day) ==
    LET rate == currentRate(rs, day)
        base == IF rate = Null THEN 0 ELSE NumberOr0(rate.hourly_rate)
    IN  IF show /\ cur = <<>> THEN String(base) ELSE cur

----------------------------------------------------------------------------
(* Rental income panel (page.tsx): range totals and the monthly series *)

range(v, year, month0) ==
    IF v = "all" THEN [start |-> 101, end |-> 99991231]
    ELSE IF v = "year" THEN [start |-> year * 10000 + 101, end |-> year * 10000 + 1231]
    ELSE [start |-> ymd(firstOfMonth(year, month0)),
          end |-> ymd(lastOfMonth(year, month0))]

\* date >= start && date <= end on date strings; a null date compares false
InRange(date, start, end) == date # NoDate /\ date >= start /\ date <= end

logsInRange(ls, r) == SelectSeq(ls, LAMBDA l : InRange(l.rental_date, r.start, r.end))
maintenanceInRange(ms, r) == SelectSeq(ms, LAMBDA m : InRange(m.entry_date, r.start, r.end))

\* a number that may be infinite: a stored number too large for a double reads
\* as Infinity
Infinity(negative) == [k |-> "inf", neg |-> negative]

\* a + b and a * b on numbers, Infinity and NaN
JsAdd(a, b) ==
    IF a.k = "nan" \/ b.k = "nan" THEN NaN
    ELSE IF a.k = "inf" /\ b.k = "inf" THEN (IF a.neg = b.neg THEN a ELSE NaN)
    ELSE IF a.k = "inf" THEN a
    ELSE IF b.k = "inf" THEN b
    ELSE Num(a.n + b.n)
JsMul(a, b) ==
    IF a.k = "nan" \/ b.k = "nan" THEN NaN
    ELSE IF a.k = "inf" /\ b.k = "inf" THEN Infinity(a.neg # b.neg)
    ELSE IF a.k = "inf" THEN (IF b.n = 0 THEN NaN ELSE Infinity(a.neg # (b.n < 0)))
    ELSE IF b.k = "inf" THEN (IF a.n = 0 THEN NaN ELSE Infinity(b.neg # (a.n < 0)))
    ELSE Num(a.n * b.n)

\* Number(v) || 0: null and NaN give 0, Infinity stays
NumberOrZero(v) == IF v.k = "num" \/ v.k = "inf" THEN v ELSE Num(0)

RECURSIVE hoursValue(_)
hoursValue(ls) ==
    IF ls = <<>> THEN Num(0)
    ELSE JsAdd(NumberOrZero(Head(ls).hours), hoursValue(Tail(ls)))

RECURSIVE revenueValue(_)
revenueValue(ls) ==
    IF ls = <<>> THEN Num(0)
    ELSE JsAdd(JsMul(NumberOrZero(Head(ls).hours), NumberOrZero(Head(ls).hourly_rate)),
               revenueValue(Tail(ls)))

RECURSIVE spendValue(_)
spendValue(ms) ==
    IF ms = <<>> THEN Num(0)
    ELSE JsAdd(NumberOrZero(Head(ms).amount), spendValue(Tail(ms)))

\* the sums as integers, for finite sums
SumHours(ls) == hoursValue(ls).n
SumRevenue(ls) == revenueValue(ls).n
SumAmount(ms) == spendValue(ms).n

\* a / b in JavaScript: an exact fraction, or NaN / Infinity when b is 0
Frac(a, b) == [k |-> "frac", num |-> a, den |-> b]
JsDiv(a, b) ==
    IF b # 0 THEN Frac(a, b)
    ELSE IF a = 0 THEN NaN
    ELSE Infinity(a < 0)

\* hours > 0 ? total / hours : null
perHour(total, hours) == IF hours > 0 THEN JsDiv(total, hours) ELSE Null

\* totals whose revenue is reported net of the spend of the range
totalsOfNetRevenue(ls, ms) ==
    LET hours == SumHours(ls)
        revenue == SumRevenue(ls) - SumAmount(ms)
        spend == SumAmount(ms)
        profit == revenue - spend
    IN  [hours |-> hours, revenue |-> revenue, spend |-> spend, profit |-> profit,
         profitPerHr |-> perHour(profit, hours)]

totalsOf(ls, ms) ==
    LET hours == SumHours(ls)
        revenue == SumRevenue(ls)
        spend == SumAmount(ms)
        profit == revenue - spend
    IN  [hours |-> hours, revenue |-> revenue, spend |-> spend, profit |-> profit,
         profitPerHr |-> perHour(profit, hours)]

\* totals that charge every maintenance entry held to the selected range
totalsAllTimeSpend(ls, ms, r) == totalsOf(logsInRange(ls, r), ms)

totals(ls, ms, r) == totalsOf(logsInRange(ls, r), maintenanceInRange(ms, r))

yearSeriesRow(ls, ms, year, month0) ==
    LET start == ymd(firstOfMonth(year, month0))
        end == ymd(lastOfMonth(year, month0))
        monthLogs == SelectSeq(ls, LAMBDA l : InRange(l.rental_date, start, end))
        monthMaint == SelectSeq(ms, LAMBDA m : InRange(m.entry_date, start, end))
        t == totalsOf(monthLogs, monthMaint)
    IN  [month0 |-> month0, start |-> start, end |-> end, hours |-> t.hours,
         revenue |-> t.revenue, spend |-> t.spend, profit |-> t.profit,
         profitPerHr |-> t.profitPerHr]

\* a series that leaves out the months without logs and without spend
yearSeriesDataMonthsOnly(ls, ms, v, year, day) ==
    LET y == IF v = "all" THEN day \div 10000 ELSE year
        all == [i \in 1..12 |-> yearSeriesRow(ls, ms, y, i - 1)]
    IN  [year |-> y, rows |-> SelectSeq(all, LAMBDA r : r.hours # 0 \/ r.spend # 0)]

\* Array.from({ length: 12 }).map((_, month0) => row)
yearSeries(ls, ms, v, year, day) ==
    LET y == IF v = "all" THEN day \div 10000 ELSE year
    IN  [year |-> y, rows |-> [i \in 1..12 |-> yearSeriesRow(ls, ms, y, i - 1)]]

----------------------------------------------------------------------------
(* Rental income panel (page.tsx): actions *)

\* select ... from maintenance_entries order by entry_date ascending (nulls last)
SelectMaintenance(table) ==
    LET rows == [i \in 1..Len(table) |->
                    [id |-> table[i].id, entry_date |-> table[i].entry_date,
                     amount |-> table[i].amount]]
    IN  SortAsc(SelectSeq(rows, LAMBDA m : m.entry_date # NoDate), "entry_date")
            \o SelectSeq(rows, LAMBDA m : m.entry_date = NoDate)

load(ok) ==
    /\ loading
    /\ IF ok
       THEN /\ logs' = SelectLogs(dbLogs)
            /\ rates' = SelectRates(dbRates)
            /\ maintenance' = SelectMaintenance(dbMaintenance)
            /\ err' = NoErr
       ELSE /\ err' = BackendError
            /\ UNCHANGED <<logs, rates, maintenance>>
    /\ loading' = FALSE
    /\ UNCHANGED <<dbVars, myRole, showRateModal, showLogModal, logRate, view,
                   selectedYear, selectedMonth0,
                   panelVars, mxVars>>

openRateModal ==
    /\ ~loading
    /\ ~showRateModal /\ ~showLogModal
    /\ showRateModal' = TRUE
    /\ UNCHANGED <<dbVars, loading, rates, logs, maintenance, err, myRole,
                   showLogModal, logRate, view, selectedYear, selectedMonth0,
                   panelVars, mxVars>>

closeRateModal ==
    /\ showRateModal
    /\ showRateModal' = FALSE
    /\ UNCHANGED <<dbVars, loading, rates, logs, maintenance, err, myRole,
                   showLogModal, logRate, view, selectedYear, selectedMonth0,
                   panelVars, mxVars>>

\* saveRate that also re-prices the stored logs dated on or after the new rate
saveRateRepricingLogs(rateValue, rateEffective, insertOk, reloadOk) ==
    /\ showRateModal
    /\ LET rateNum == Number(rateValue)
           row == [id |-> Len(dbRates) + 1,
                   hourly_rate |-> rateNum,
                   effective_from |-> rateEffective]
       IN  IF Falsy(rateNum) \/ rateNum.n <= 0 \/ rateEffective = NoDate \/ ~insertOk
           THEN /\ err' = BackendError
                /\ UNCHANGED <<dbRates, dbLogs, rates, showRateModal>>
           ELSE /\ err' = NoErr
                /\ dbRates' = Append(dbRates, row)
                /\ dbLogs' = [i \in 1..Len(dbLogs) |->
                                 IF dbLogs[i].rental_date >= rateEffective
                                 THEN [dbLogs[i] EXCEPT !.hourly_rate = rateNum]
                                 ELSE dbLogs[i]]
                /\ showRateModal' = FALSE
                /\ rates' = IF reloadOk THEN SelectRates(dbRates') ELSE rates
    /\ UNCHANGED <<dbMaintenance, nextLogId, today, loading, logs, maintenance,
                   myRole, showLogModal, logRate, view, selectedYear, selectedMonth0,
                   panelVars, mxVars>>

saveRate(rateValue, rateEffective, insertOk, reloadOk) ==
    /\ showRateModal
    /\ LET rateNum == Number(rateValue)
           row == [id |-> Len(dbRates) + 1,
                   hourly_rate |-> rateNum,
                   effective_from |-> rateEffective]
       IN  IF Falsy(rateNum) \/ rateNum.n <= 0
           THEN /\ err' = "Hourly rate must be a positive number."
                /\ UNCHANGED <<dbRates, rates, showRateModal>>
           ELSE IF rateEffective = NoDate
           THEN /\ err' = "Effective From date is required."
                /\ UNCHANGED <<dbRates, rates, showRateModal>>
           ELSE IF ~insertOk
           THEN /\ err' = BackendError
                /\ UNCHANGED <<dbRates, rates, showRateModal>>
           ELSE /\ err' = NoErr
                /\ dbRates' = Append(dbRates, row)
                /\ showRateModal' = FALSE
                /\ rates' = IF reloadOk THEN SelectRates(dbRates') ELSE rates
    /\ logRate' = SeedLogRate(showLogModal, logRate, rates', today)
    /\ UNCHANGED <<dbLogs, dbMaintenance, nextLogId, today, loading, logs,
                   maintenance, myRole, showLogModal, view, selectedYear,
                   selectedMonth0,
                   panelVars, mxVars>>

openLogModal ==
    /\ ~loading
    /\ ~showRateModal /\ ~showLogModal
    /\ showLogModal' = TRUE
    /\ logRate' = SeedLogRate(TRUE, logRate, rates, today)
    /\ UNCHANGED <<dbVars, loading, rates, logs, maintenance, err, myRole,
                   showRateModal, view, selectedYear, selectedMonth0,
                   panelVars, mxVars>>

closeLogModal ==
    /\ showLogModal
    /\ showLogModal' = FALSE
    /\ UNCHANGED <<dbVars, loading, rates, logs, maintenance, err, myRole,
                   showRateModal, logRate, view, selectedYear, selectedMonth0,
                   panelVars, mxVars>>

\* onChange of the rate field of the log modal
typeLogRate(text) ==
    /\ showLogModal
    /\ logRate' = text
    /\ UNCHANGED <<dbVars, loading, rates, logs, maintenance, err, myRole,
                   showRateModal, showLogModal, view, selectedYear, selectedMonth0,
                   panelVars, mxVars>>

saveLog(logDate, logHours, insertOk, reloadOk) ==
    /\ showLogModal
    /\ LET hrs == Number(logHours)
           rateNum == Number(logRate)
           row == [id |-> nextLogId, rental_date |-> logDate, hours |-> hrs,
                   hourly_rate |-> rateNum]
       IN  IF logDate = NoDate
           THEN /\ err' = "Rental date is required."
                /\ UNCHANGED <<dbLogs, nextLogId, logs, showLogModal, logRate>>
           ELSE IF Falsy(hrs) \/ hrs.n <= 0
           THEN /\ err' = "Hours must be a positive number."
                /\ UNCHANGED <<dbLogs, nextLogId, logs, showLogModal, logRate>>
           ELSE IF ~IsNum(rateNum) \/ rateNum.n < 0
           THEN /\ err' = "Rate must be 0 or a positive number."
                /\ UNCHANGED <<dbLogs, nextLogId, logs, showLogModal, logRate>>
           ELSE IF ~insertOk
           THEN /\ err' = BackendError
                /\ UNCHANGED <<dbLogs, nextLogId, logs, showLogModal, logRate>>
           ELSE /\ err' = NoErr
                /\ dbLogs' = Append(dbLogs, row)
                /\ nextLogId' = nextLogId + 1
                /\ showLogModal' = FALSE
                /\ logRate' = <<>>
                /\ logs' = IF reloadOk THEN SelectLogs(dbLogs') ELSE logs
    /\ UNCHANGED <<dbRates, dbMaintenance, today, loading, rates, maintenance,
                   myRole, showRateModal, view, selectedYear, selectedMonth0,
                   panelVars, mxVars>>

canEditLogs == myRole = "owner" \/ myRole = "admin"

\* the rows of the log table: the logs of the range shown
ShownLogIds ==
    LET shown == logsInRange(logs, range(view, selectedYear, selectedMonth0))
    IN  {shown[i].id : i \in 1..Len(shown)}

UpdateLog(table, id, patch) ==
    [i \in 1..Len(table) |-> IF table[i].id = id THEN patch ELSE table[i]]

saveEditLog(id, editLogDate, editLogHours, editLogRate, updateOk, reloadOk) ==
    /\ ~loading
    /\ id \in ShownLogIds
    /\ canEditLogs
    /\ LET hrs == Number(editLogHours)
           rateNum == Number(editLogRate)
           patch == [id |-> id, rental_date |-> editLogDate, hours |-> hrs,
                     hourly_rate |-> rateNum]
       IN  IF editLogDate = NoDate
           THEN /\ err' = "Rental date is required."
                /\ UNCHANGED <<dbLogs, logs>>
           ELSE IF Falsy(hrs) \/ hrs.n <= 0
           THEN /\ err' = "Hours must be a positive number."
                /\ UNCHANGED <<dbLogs, logs>>
           ELSE IF Falsy(rateNum) \/ rateNum.n <= 0
           THEN /\ err' = "Hourly rate must be a positive number."
                /\ UNCHANGED <<dbLogs, logs>>
           ELSE IF ~updateOk
           THEN /\ err' = BackendError
                /\ UNCHANGED <<dbLogs, logs>>
           ELSE /\ err' = NoErr
                /\ dbLogs' = UpdateLog(dbLogs, id, patch)
                /\ logs' = IF reloadOk THEN SelectLogs(dbLogs') ELSE logs
    /\ UNCHANGED <<dbRates, dbMaintenance, nextLogId, today, loading, rates,
                   maintenance, myRole, showRateModal, showLogModal, logRate, view,
                   selectedYear, selectedMonth0,
                   panelVars, mxVars>>

deleteLog(id, confirmed, deleteOk, reloadOk) ==
    /\ ~loading
    /\ id \in ShownLogIds
    /\ canEditLogs
    /\ confirmed
    /\ IF ~deleteOk
       THEN /\ err' = BackendError
            /\ UNCHANGED <<dbLogs, logs>>
       ELSE /\ err' = NoErr
            /\ dbLogs' = SelectSeq(dbLogs, LAMBDA l : l.id # id)
            /\ logs' = IF reloadOk THEN SelectLogs(dbLogs') ELSE logs
    /\ UNCHANGED <<dbRates, dbMaintenance, nextLogId, today, loading, rates,
                   maintenance, myRole, showRateModal, showLogModal, logRate, view,
                   selectedYear, selectedMonth0,
                   panelVars, mxVars>>

setView(v) ==
    /\ ~loading
    /\ view' = v
    /\ UNCHANGED <<dbVars, loading, rates, logs, maintenance, err, myRole,
                   showRateModal, showLogModal, logRate, selectedYear, selectedMonth0,
                   panelVars, mxVars>>

\* the year options: an 8-year window around the current year
years == {(today \div 10000) - 5 + i : i \in 0..7}

setSelectedYear(y) ==
    /\ ~loading
    /\ view # "all"
    /\ y \in years
    /\ selectedYear' = y
    /\ UNCHANGED <<dbVars, loading, rates, logs, maintenance, err, myRole,
                   showRateModal, showLogModal, logRate, view, selectedMonth0,
                   panelVars, mxVars>>

setSelectedMonth0(m) ==
    /\ ~loading
    /\ view = "month"
    /\ selectedMonth0' = m
    /\ UNCHANGED <<dbVars, loading, rates, logs, maintenance, err, myRole,
                   showRateModal, showLogModal, logRate, view, selectedYear,
                   panelVars, mxVars>>

----------------------------------------------------------------------------
(* The older rental panel (components/RentalRevenuePanel.tsx) *)

Reverse(s) == [i \in 1..Len(s) |-> s[Len(s) + 1 - i]]

canEdit == myRole = "owner" \/ myRole = "admin"

\* the backend view v_aircraft_rental_current_rate: the latest rate in force
CurrentRateView(table, day) ==
    LET inForce == SortAsc(SelectSeq(table, LAMBDA r : r.effective_from <= day),
                           "effective_from")
    IN  IF inForce = <<>> THEN Null ELSE inForce[Len(inForce)]

\* rates where effective_from <= dateISO order by effective_from desc limit 1,
\* then row?.hourly_rate ?? currentRate?.hourly_rate ?? 0
getRateForDate(table, cur, dateISO) ==
    LET res == Reverse(SortAsc(SelectSeq(table, LAMBDA r : r.effective_from <= dateISO),
                               "effective_from"))
    IN  IF res # <<>> THEN res[1].hourly_rate
        ELSE IF cur # Null THEN cur.hourly_rate
        ELSE Num(0)

\* the rates the backend procedure add_rental_log may snapshot into a new log:
\* the rate in force on the rental date, or the current rate
AddRentalLogRates(table, date, day) ==
    {getRateForDate(table, Null, date), getRateForDate(table, Null, day)}

\* the state refresh() leaves, given whether its queries succeeded
refreshed(ok, rateTable, logTable) ==
    /\ pLoading' = FALSE
    /\ IF ok
       THEN /\ pCurrentRate' = CurrentRateView(rateTable, today)
            /\ pLogs' = Reverse(SelectLogs(logTable))
            /\ pError' = NoErr
       ELSE /\ pError' = BackendError
            /\ UNCHANGED <<pCurrentRate, pLogs>>

refresh(ok) ==
    /\ pLoading
    /\ refreshed(ok, dbRates, dbLogs)
    /\ UNCHANGED <<dbVars, pageVars, mxVars, logOpen, rateOpen, editOpen, editRow>>

NoModalOpen == ~logOpen /\ ~rateOpen /\ ~editOpen

openRate ==
    /\ canEdit /\ NoModalOpen
    /\ rateOpen' = TRUE
    /\ UNCHANGED <<dbVars, pageVars, mxVars, pLoading, pCurrentRate, pLogs, pError, logOpen,
                   editOpen, editRow>>

openLog ==
    /\ canEdit /\ NoModalOpen
    /\ logOpen' = TRUE
    /\ UNCHANGED <<dbVars, pageVars, mxVars, pLoading, pCurrentRate, pLogs, pError, rateOpen,
                   editOpen, editRow>>

openEdit(i) ==
    /\ canEdit /\ NoModalOpen /\ ~pLoading
    /\ i \in 1..Len(pLogs)
    /\ editRow' = pLogs[i]
    /\ editOpen' = TRUE
    /\ UNCHANGED <<dbVars, pageVars, mxVars, pLoading, pCurrentRate, pLogs, pError, logOpen,
                   rateOpen>>

closeModal ==
    /\ ~NoModalOpen
    /\ logOpen' = FALSE /\ rateOpen' = FALSE /\ editOpen' = FALSE
    /\ UNCHANGED <<dbVars, pageVars, mxVars, pLoading, pCurrentRate, pLogs, pError, editRow>>

submitLog(logDate, logHours, rpcOk, refreshOk) ==
    /\ logOpen
    /\ LET hoursNum == Number(logHours)
       IN  IF logDate = NoDate
           THEN /\ pError' = "Pick a rental date."
                /\ UNCHANGED <<dbLogs, nextLogId, pLoading, pCurrentRate, pLogs, logOpen>>
           ELSE IF ~IsNum(hoursNum) \/ hoursNum.n <= 0
           THEN /\ pError' = "Hours must be > 0."
                /\ UNCHANGED <<dbLogs, nextLogId, pLoading, pCurrentRate, pLogs, logOpen>>
           ELSE IF ~rpcOk
           THEN /\ pError' = BackendError
                /\ UNCHANGED <<dbLogs, nextLogId, pLoading, pCurrentRate, pLogs, logOpen>>
           ELSE /\ \E snapshot \in AddRentalLogRates(dbRates, logDate, today) :
                     dbLogs' = Append(dbLogs, [id |-> nextLogId, rental_date |-> logDate,
                                               hours |-> hoursNum, hourly_rate |-> snapshot])
                /\ nextLogId' = nextLogId + 1
                /\ logOpen' = FALSE
                /\ refreshed(refreshOk, dbRates, dbLogs')
    /\ UNCHANGED <<dbRates, dbMaintenance, today, pageVars, mxVars, rateOpen, editOpen, editRow>>

submitRate(newRate, rateEffective, insertOk, refreshOk) ==
    /\ rateOpen
    /\ LET rateNum == Number(newRate)
           row == [id |-> Len(dbRates) + 1, hourly_rate |-> rateNum,
                   effective_from |-> rateEffective]
       IN  IF ~IsNum(rateNum) \/ rateNum.n < 0
           THEN /\ pError' = "Rate must be a valid number (>= 0)."
                /\ UNCHANGED <<dbRates, pLoading, pCurrentRate, pLogs, rateOpen>>
           ELSE IF rateEffective = NoDate
           THEN /\ pError' = "Pick an effective date."
                /\ UNCHANGED <<dbRates, pLoading, pCurrentRate, pLogs, rateOpen>>
           ELSE IF ~insertOk
           THEN /\ pError' = BackendError
                /\ UNCHANGED <<dbRates, pLoading, pCurrentRate, pLogs, rateOpen>>
           ELSE /\ dbRates' = Append(dbRates, row)
                /\ rateOpen' = FALSE
                /\ refreshed(refreshOk, dbRates', dbLogs)
    /\ UNCHANGED <<dbLogs, dbMaintenance, nextLogId, today, pageVars, mxVars, logOpen, editOpen,
                   editRow>>

\* the edit modal's Save Changes handler
saveChanges(editDate, editHours, queryOk, updateOk, refreshOk) ==
    /\ editOpen /\ editRow # Null
    /\ LET h == Number(editHours)
           rate == getRateForDate(dbRates, pCurrentRate, editDate)
           patch == [id |-> editRow.id, rental_date |-> editDate, hours |-> h,
                     hourly_rate |-> rate]
       IN  IF editDate = NoDate
           THEN /\ pError' = "Pick a date."
                /\ UNCHANGED <<dbLogs, pLoading, pCurrentRate, pLogs, editOpen, editRow>>
           ELSE IF ~IsNum(h) \/ h.n <= 0
           THEN /\ pError' = "Hours must be > 0."
                /\ UNCHANGED <<dbLogs, pLoading, pCurrentRate, pLogs, editOpen, editRow>>
           ELSE IF ~queryOk \/ ~updateOk
           THEN /\ pError' = BackendError
                /\ UNCHANGED <<dbLogs, pLoading, pCurrentRate, pLogs, editOpen, editRow>>
           ELSE /\ dbLogs' = UpdateLog(dbLogs, editRow.id, patch)
                /\ editOpen' = FALSE
                /\ editRow' = Null
                /\ refreshed(refreshOk, dbRates, dbLogs')
    /\ UNCHANGED <<dbRates, dbMaintenance, nextLogId, today, pageVars, mxVars, logOpen, rateOpen>>

----------------------------------------------------------------------------
(* Aircraft page (aircraft/[id]/page.tsx): derived figures.  Amounts, tach    *)
(* hours and benchmark costs are integers; quotients are exact fractions.     *)

\* typeof v === "number" && Number.isFinite(v)
IsFiniteNumber(v) == v.k = "num"

\* typeof v === "number": a number, Infinity or NaN, not null
IsTypeofNumber(v) == v.k \in {"num", "inf", "nan"}

RECURSIVE totalSpendValue(_)
totalSpendValue(es) ==
    IF es = <<>> THEN Num(0)
    ELSE JsAdd(IF IsTypeofNumber(Head(es).amount) THEN Head(es).amount ELSE Num(0),
               totalSpendValue(Tail(es)))

\* the sum as an integer, for a finite sum
totalSpend(es) == totalSpendValue(es).n

\* Array.prototype.sort((a, b) => a - b) on a list of numbers
InsertNumber(s, x) ==
    LET k == Cardinality({i \in 1..Len(s) : s[i] <= x})
    IN  SubSeq(s, 1, k) \o <<x>> \o SubSeq(s, k + 1, Len(s))

RECURSIVE SortNumbers(_)
SortNumbers(s) ==
    IF s = <<>> THEN <<>>
    ELSE InsertNumber(SortNumbers(SubSeq(s, 1, Len(s) - 1)), s[Len(s)])

\* entries.map((e) => e.tach_hours).filter(finite number)
finiteTach(es) ==
    LET kept == SelectSeq(es, LAMBDA e : IsFiniteNumber(e.tach_hours))
    IN  [i \in 1..Len(kept) |-> kept[i].tach_hours.n]

\* the finite tach values in the order of the entries, left unsorted
tachValuesUnsorted(es) == finiteTach(es)

tachValues(es) == SortNumbers(finiteTach(es))

hoursFlown(tv) ==
    IF Len(tv) < 2 THEN 0
    ELSE LET diff == tv[Len(tv)] - tv[1]
         IN  IF diff > 0 THEN diff ELSE 0

\* a cost per hour that divides whatever the hours are
costPerHourUnguarded(hf, spend) == JsDiv(spend, hf)

costPerHour(hf, spend) == IF hf > 0 THEN JsDiv(spend, hf) ELSE Null
operatingPerHour(hf, total) == IF hf > 0 THEN JsDiv(total, hf) ELSE Null
rentalPerHour(hf, total) == IF hf > 0 THEN JsDiv(total, hf) ELSE Null

\* arithmetic of a fraction with an integer
FracMinus(f, n) == Frac(f.num - n * f.den, f.den)
FracOver(f, n) ==
    IF n # 0 THEN Frac(f.num, f.den * n)
    ELSE IF f.num = 0 THEN NaN
    ELSE Infinity((f.num < 0) # (f.den < 0))
FracTimes(f, n) == Frac(f.num * n, f.den)
Abs(n) == IF n < 0 THEN -n ELSE n
FracAbs(f) == Frac(Abs(f.num), Abs(f.den))
FracSign(f) ==
    IF f.num = 0 THEN 0 ELSE IF (f.num < 0) # (f.den < 0) THEN -1 ELSE 1
\* f <= a / b and f < a / b for a fraction f >= 0 and integers a >= 0, b > 0
FracAtMost(f, a, b) == f.num * b <= a * f.den
FracBelow(f, a, b) == f.num * b < a * f.den

\* a comparison whose percentage is taken of the observed cost
benchmarkCompareOfObserved(bm, cph) ==
    IF bm = Null THEN Null
    ELSE IF bm.hourly_cost <= 0 THEN Null
    ELSE IF cph = Null THEN Null
    ELSE LET diff == FracMinus(cph, bm.hourly_cost)
             pct == IF cph.num = 0 THEN Frac(0, 1)
                    ELSE Frac(diff.num * cph.den * 100, diff.den * cph.num)
         IN  [k |-> "compare", diff |-> diff, pct |-> pct,
              above |-> FracSign(diff) > 0,
              equalish |-> FracBelow(FracAbs(pct), 1, 2)]

benchmarkCompare(bm, cph) ==
    IF bm = Null THEN Null
    ELSE IF bm.hourly_cost <= 0 THEN Null
    ELSE IF cph = Null THEN Null
    ELSE LET diff == FracMinus(cph, bm.hourly_cost)
             pct == FracTimes(FracOver(diff, bm.hourly_cost), 100)
         IN  [k |-> "compare", diff |-> diff, pct |-> pct,
              above |-> FracSign(diff) > 0,
              equalish |-> FracBelow(FracAbs(pct), 1, 2)]

OnTrackPct == 10
WatchPct == 25
Status(label, color) == [k |-> "status", label |-> label, color |-> color]

\* a classification whose lower band excludes its upper boundary
benchmarkStatusExclusive(cmp) ==
    IF cmp = Null THEN Null
    ELSE LET absPct == FracAbs(cmp.pct)
         IN  IF FracBelow(absPct, OnTrackPct, 1) THEN Status("On track", "#22c55e")
             ELSE IF FracBelow(absPct, WatchPct, 1) THEN Status("Watch", "#f59e0b")
             ELSE Status("High", "#ef4444")

benchmarkStatus(cmp) ==
    IF cmp = Null THEN Null
    ELSE LET absPct == FracAbs(cmp.pct)
         IN  IF FracAtMost(absPct, OnTrackPct, 1) THEN Status("On track", "#22c55e")
             ELSE IF FracAtMost(absPct, WatchPct, 1) THEN Status("Watch", "#f59e0b")
             ELSE Status("High", "#ef4444")

----------------------------------------------------------------------------
(* Aircraft page: loading *)

Table(rs) == [exists |-> TRUE, rows |-> rs]
MissingTable == [exists |-> FALSE, rows |-> <<>>]

RECURSIVE SumAmountOrRevenue(_)
SumAmountOrRevenue(rs) ==
    IF rs = <<>> THEN 0
    ELSE (IF IsNum(Head(rs).amount) THEN Head(rs).amount.n
          ELSE IF IsNum(Head(rs).revenue) THEN Head(rs).revenue.n
          ELSE 0) + SumAmountOrRevenue(Tail(rs))

\* null when the query fails, the sum of amount (else revenue) otherwise
sumAmountsFromTable(table) ==
    IF ~dbSums[table].exists THEN Null ELSE Num(SumAmountOrRevenue(dbSums[table].rows))

\* a ?? b
Coalesce(a, b) == IF a = Null THEN b ELSE a

\* order by entry_date descending nulls last, then created_at descending
SelectEntries(table) ==
    LET dated == SelectSeq(table, LAMBDA e : e.entry_date # NoDate)
        undated == SelectSeq(table, LAMBDA e : e.entry_date = NoDate)
    IN  Reverse(SortAsc(dated, "entry_date")) \o Reverse(undated)

\* order by effective_date descending, limit 1, maybeSingle
SelectBenchmark(table) ==
    IF table = <<>> THEN Null
    ELSE SortAsc(table, "effective_date")[Len(table)]

\* myRole === null
NoRole == "<null>"

\* the years of the dated entries, Number(iso.slice(0, 4))
spendYears(es) == {es[i].entry_date \div 10000 : i \in {j \in 1..Len(es) : es[j].entry_date # NoDate}}

\* the effect on spendYears: a year that is not offered gives way to the latest
spendYearEffect(es, year) ==
    IF spendYears(es) # {} /\ year \notin spendYears(es)
    THEN CHOOSE y \in spendYears(es) : \A z \in spendYears(es) : z <= y
    ELSE year

\* editingId === null, and no write in flight
NoEditing == 0
NoRequest == [op |-> "none"]

\* aircraft === null, and the row of the one aircraft of the model
NoAircraft == "<null>"
TheAircraft == "N123AB"

ENTRIES_READ == "maintenance_entries_timeline"
ENTRIES_WRITE == "maintenance_entries"

\* if (!memRow): the user is neither an admin nor a member
noMemberRowKeepingEntries ==
    /\ mxError' = "You don't have access to this aircraft."
    /\ aircraft' = NoAircraft
    /\ UNCHANGED entries

noMemberRow ==
    /\ mxError' = "You don't have access to this aircraft."
    /\ aircraft' = NoAircraft
    /\ entries' = <<>>

\* the state loadAll leaves over a table of maintenance entries; stage names the
\* query that fails, "none" when all succeed
loadAllFrom(stage, table) ==
    /\ mxLoading' = FALSE
    /\ IF stage = "aircraft"
       THEN /\ mxError' = BackendError
            /\ roleLoading' = FALSE
            /\ queried' = {"aircraft"}
            /\ UNCHANGED <<aircraft, mxRole, entries, operatingTotalAllTime,
                           rentalTotalAllTime, benchmark>>
       ELSE IF dbAircraft = NoAircraft
       THEN /\ aircraft' = NoAircraft
            /\ mxError' = "Aircraft not found."
            /\ entries' = <<>>
            /\ roleLoading' = FALSE
            /\ queried' = {"aircraft"}
            /\ UNCHANGED <<mxRole, operatingTotalAllTime, rentalTotalAllTime, benchmark>>
       ELSE IF stage = "role"
       THEN /\ aircraft' = dbAircraft
            /\ mxError' = BackendError
            /\ roleLoading' = FALSE
            /\ queried' = {"aircraft", "app_admins"}
            /\ UNCHANGED <<mxRole, entries, operatingTotalAllTime, rentalTotalAllTime,
                           benchmark>>
       ELSE IF dbMember # "admin" /\ stage = "members"
       THEN /\ aircraft' = dbAircraft
            /\ mxError' = BackendError
            /\ roleLoading' = FALSE
            /\ queried' = {"aircraft", "app_admins", "aircraft_members"}
            /\ UNCHANGED <<mxRole, entries, operatingTotalAllTime, rentalTotalAllTime,
                           benchmark>>
       ELSE IF dbMember = NoRole
       THEN /\ mxRole' = NoRole
            /\ noMemberRow
            /\ roleLoading' = FALSE
            /\ queried' = {"aircraft", "app_admins", "aircraft_members"}
            /\ UNCHANGED <<operatingTotalAllTime, rentalTotalAllTime, benchmark>>
       ELSE /\ mxRole' = dbMember
            /\ aircraft' = dbAircraft
            /\ roleLoading' = FALSE
            /\ LET roleQueries == IF dbMember = "admin" THEN {"aircraft", "app_admins"}
                                  ELSE {"aircraft", "app_admins", "aircraft_members"}
               IN  IF stage = "entries"
               THEN /\ mxError' = BackendError
                    /\ queried' = roleQueries \cup {ENTRIES_READ}
                    /\ UNCHANGED <<entries, operatingTotalAllTime, rentalTotalAllTime,
                                   benchmark>>
               ELSE /\ entries' = SelectEntries(table)
                    /\ queried' = roleQueries \cup
                                     {ENTRIES_READ, "operating_expenses", "rental_income",
                                      "maintenance_benchmarks"}
                    /\ operatingTotalAllTime' =
                          Coalesce(Coalesce(sumAmountsFromTable("operating_expenses"),
                                            sumAmountsFromTable("operating_costs")),
                                   Num(0)).n
                    /\ rentalTotalAllTime' =
                          Coalesce(Coalesce(sumAmountsFromTable("rental_income"),
                                            sumAmountsFromTable("rental_revenue")),
                                   Num(0)).n
                    /\ IF stage = "benchmark"
                       THEN /\ mxError' = BackendError
                            /\ UNCHANGED benchmark
                       ELSE /\ mxError' = NoErr
                            /\ benchmark' = SelectBenchmark(dbBenchmarks)
    /\ spendYear' = spendYearEffect(entries', spendYear)

\* the mount effect
loadAll(stage) ==
    /\ mxLoading
    /\ loadAllFrom(stage, dbMaintenance)
    /\ UNCHANGED <<dbVars, pageVars, panelVars, siteVars, mxDbVars, allInVars, memo, tzWest,
                   spendView, spendMonth, chartView, trendView, entryFormVars>>

\* the session changes to a user whose role for the aircraft is role; the effect
\* on userId starts loadAll, which sets loading and clears the error
onAuthStateChange(role) ==
    /\ ~mxLoading
    /\ pending = NoRequest
    /\ dbMember' = role
    /\ mxLoading' = TRUE
    /\ mxError' = NoErr
    /\ UNCHANGED <<dbVars, pageVars, panelVars, siteVars, dbBenchmarks, dbSums, dbSettings, dbOp,
                   dbAircraft, allInVars, chartVars, memo, entries, mxRole,
                   operatingTotalAllTime, rentalTotalAllTime, benchmark, accessVars,
                   entryFormVars>>

----------------------------------------------------------------------------
(* Aircraft page: the add form and the edit form of the maintenance entries *)

\* text.trim()
RECURSIVE TrimStart(_)
TrimStart(t) == IF t # <<>> /\ Head(t) = " " THEN TrimStart(Tail(t)) ELSE t
RECURSIVE TrimEnd(_)
TrimEnd(t) ==
    IF t # <<>> /\ t[Len(t)] = " " THEN TrimEnd(SubSeq(t, 1, Len(t) - 1)) ELSE t
Trim(t) == TrimEnd(TrimStart(t))

\* text.trim() === "" ? null : Number(text); Number skips the white space around
\* the digits
FieldNumber(t) == IF Trim(t) = <<>> THEN Null ELSE Number(Trim(t))

\* /^\d{4}-\d{2}-\d{2}$/.test(text)
IsoShape(t) ==
    /\ Len(t) = 10
    /\ \A i \in {1, 2, 3, 4, 6, 7, 9, 10} : IsDigit(t[i])
    /\ t[5] = "-"
    /\ t[8] = "-"

\* the date column holding the text YYYY-MM-DD, and the text of a stored date
DateOfText(t) == DigitsValue(<<t[1], t[2], t[3], t[4], t[6], t[7], t[9], t[10]>>, 0)
TwoDigits(n) == <<Digits[(n \div 10) + 1], Digits[(n % 10) + 1]>>
TextOfDate(d) ==
    NatString(d \div 10000) \o <<"-">> \o TwoDigits((d \div 100) % 100) \o <<"-">>
        \o TwoDigits(d % 100)

\* entry_date of the payload: text.trim() === "" ? null : text.trim()
FieldDate(t) == IF Trim(t) = <<>> THEN NoDate ELSE DateOfText(Trim(t))

\* the message a form is turned down with, NoErr when it is accepted
validateWithoutTachRule(amountText, tachText, dateText) ==
    LET amountNum == FieldNumber(amountText)
        tachNum == FieldNumber(tachText)
    IN  IF amountNum # Null /\ amountNum = NaN THEN "Amount must be a number."
        ELSE IF tachNum # Null /\ tachNum = NaN THEN "Tach Hours must be a number."
        ELSE IF Trim(dateText) # <<>> /\ ~IsoShape(Trim(dateText))
        THEN "Date must be YYYY-MM-DD (or leave blank)."
        ELSE NoErr

validate(amountText, tachText, dateText) ==
    LET amountNum == FieldNumber(amountText)
        tachNum == FieldNumber(tachText)
    IN  IF amountNum # Null /\ amountNum = NaN THEN "Amount must be a number."
        ELSE IF tachNum # Null /\ tachNum = NaN THEN "Tach Hours must be a number."
        ELSE IF amountNum # Null /\ tachNum = Null
        THEN "Tach hours are required when entering a cost."
        ELSE IF Trim(dateText) # <<>> /\ ~IsoShape(Trim(dateText))
        THEN "Date must be YYYY-MM-DD (or leave blank)."
        ELSE NoErr

\* the forms are on screen once loadAll has found the aircraft and the role
formsShown == ~roleLoading /\ aircraft # NoAircraft

\* onChange of the fields of the add form
setEntryDate(t) ==
    /\ formsShown
    /\ entryDate' = t
    /\ UNCHANGED <<dbVars, pageVars, panelVars, siteVars, mxDbVars, allInVars, chartVars, memo,
                   mxLoading, entries, mxError, mxRole, operatingTotalAllTime,
                   rentalTotalAllTime, benchmark, accessVars, saving, amount, tachHours,
                   editingId, mxEditDate, editAmount, editTach, pending>>

setAmount(t) ==
    /\ formsShown
    /\ amount' = t
    /\ UNCHANGED <<dbVars, pageVars, panelVars, siteVars, mxDbVars, allInVars, chartVars, memo,
                   mxLoading, entries, mxError, mxRole, operatingTotalAllTime,
                   rentalTotalAllTime, benchmark, accessVars, saving, entryDate,
                   tachHours, editingId, mxEditDate, editAmount, editTach, pending>>

setTachHours(t) ==
    /\ formsShown
    /\ tachHours' = t
    /\ UNCHANGED <<dbVars, pageVars, panelVars, siteVars, mxDbVars, allInVars, chartVars, memo,
                   mxLoading, entries, mxError, mxRole, operatingTotalAllTime,
                   rentalTotalAllTime, benchmark, accessVars, saving, entryDate, amount,
                   editingId, mxEditDate, editAmount, editTach, pending>>

\* submit of the add form, up to the insert it sends; the submit button is
\* disabled while saving
addEntry ==
    /\ formsShown
    /\ ~saving
    /\ LET message == validate(amount, tachHours, entryDate)
       IN  IF message # NoErr
           THEN /\ mxError' = message
                /\ saving' = FALSE
                /\ UNCHANGED pending
           ELSE /\ mxError' = NoErr
                /\ saving' = TRUE
                /\ pending' = [op |-> "insert",
                               row |-> [id |-> 0, entry_date |-> FieldDate(entryDate),
                                        amount |-> FieldNumber(amount),
                                        tach_hours |-> FieldNumber(tachHours)]]
    /\ UNCHANGED <<dbVars, pageVars, panelVars, siteVars, mxDbVars, allInVars, chartVars, memo,
                   mxLoading, entries, mxRole, operatingTotalAllTime, rentalTotalAllTime,
                   benchmark, accessVars, entryDate, amount, tachHours, editingId,
                   mxEditDate, editAmount, editTach>>

\* the answer to the insert, and what addEntry does after it
addEntryAnswered(ok, stage) ==
    /\ pending.op = "insert"
    /\ pending' = NoRequest
    /\ saving' = FALSE
    /\ IF ~ok
       THEN /\ mxError' = BackendError
            /\ UNCHANGED <<dbMaintenance, mxLoading, entries, mxRole,
                           operatingTotalAllTime, rentalTotalAllTime, benchmark,
                           accessVars, spendYear, entryDate, amount, tachHours>>
       ELSE /\ dbMaintenance' =
                  Append(dbMaintenance, [pending.row EXCEPT !.id = Len(dbMaintenance) + 1])
            /\ loadAllFrom(stage, dbMaintenance')
            /\ entryDate' = <<>>
            /\ amount' = <<>>
            /\ tachHours' = <<>>
    /\ UNCHANGED <<dbRates, dbLogs, nextLogId, today, pageVars, panelVars, siteVars, mxDbVars,
                   allInVars, memo, tzWest, spendView, spendMonth, chartView, trendView,
                   editingId,
                   mxEditDate, editAmount, editTach>>

\* Edit in the menu of a row
startEdit(row) ==
    /\ formsShown
    /\ editingId' = row.id
    /\ mxEditDate' = IF row.entry_date = NoDate THEN <<>> ELSE TextOfDate(row.entry_date)
    /\ editAmount' = IF row.amount = Null THEN <<>> ELSE String(row.amount.n)
    /\ editTach' = IF row.tach_hours = Null THEN <<>> ELSE String(row.tach_hours.n)
    /\ UNCHANGED <<dbVars, pageVars, panelVars, siteVars, mxDbVars, allInVars, chartVars, memo,
                   mxLoading, entries, mxError, mxRole, operatingTotalAllTime,
                   rentalTotalAllTime, benchmark, accessVars, saving, entryDate, amount,
                   tachHours, pending>>

cancelEdit ==
    /\ formsShown
    /\ editingId # NoEditing
    /\ editingId' = NoEditing
    /\ mxEditDate' = <<>>
    /\ editAmount' = <<>>
    /\ editTach' = <<>>
    /\ UNCHANGED <<dbVars, pageVars, panelVars, siteVars, mxDbVars, allInVars, chartVars, memo,
                   mxLoading, entries, mxError, mxRole, operatingTotalAllTime,
                   rentalTotalAllTime, benchmark, accessVars, saving, entryDate, amount,
                   tachHours, pending>>

\* onChange of the fields of the row being edited
setEditDate(t) ==
    /\ formsShown
    /\ editingId # NoEditing
    /\ mxEditDate' = t
    /\ UNCHANGED <<dbVars, pageVars, panelVars, siteVars, mxDbVars, allInVars, chartVars, memo,
                   mxLoading, entries, mxError, mxRole, operatingTotalAllTime,
                   rentalTotalAllTime, benchmark, accessVars, saving, entryDate, amount,
                   tachHours, editingId, editAmount, editTach, pending>>

setEditAmount(t) ==
    /\ formsShown
    /\ editingId # NoEditing
    /\ editAmount' = t
    /\ UNCHANGED <<dbVars, pageVars, panelVars, siteVars, mxDbVars, allInVars, chartVars, memo,
                   mxLoading, entries, mxError, mxRole, operatingTotalAllTime,
                   rentalTotalAllTime, benchmark, accessVars, saving, entryDate, amount,
                   tachHours, editingId, mxEditDate, editTach, pending>>

setEditTach(t) ==
    /\ formsShown
    /\ editingId # NoEditing
    /\ editTach' = t
    /\ UNCHANGED <<dbVars, pageVars, panelVars, siteVars, mxDbVars, allInVars, chartVars, memo,
                   mxLoading, entries, mxError, mxRole, operatingTotalAllTime,
                   rentalTotalAllTime, benchmark, accessVars, saving, entryDate, amount,
                   tachHours, editingId, mxEditDate, editAmount, pending>>

\* Save of the row being edited, up to the update it sends; the button is disabled
\* while saving
saveEdit(id) ==
    /\ formsShown
    /\ ~saving
    /\ editingId = id
    /\ LET message == validate(editAmount, editTach, mxEditDate)
       IN  IF message # NoErr
           THEN /\ mxError' = message
                /\ saving' = FALSE
                /\ UNCHANGED pending
           ELSE /\ mxError' = NoErr
                /\ saving' = TRUE
                /\ pending' = [op |-> "update", id |-> id,
                               patch |-> [entry_date |-> FieldDate(mxEditDate),
                                          amount |-> FieldNumber(editAmount),
                                          tach_hours |-> FieldNumber(editTach)]]
    /\ UNCHANGED <<dbVars, pageVars, panelVars, siteVars, mxDbVars, allInVars, chartVars, memo,
                   mxLoading, entries, mxRole, operatingTotalAllTime, rentalTotalAllTime,
                   benchmark, accessVars, entryDate, amount, tachHours, editingId,
                   mxEditDate, editAmount, editTach>>

\* update ... eq("id", id)
UpdateEntry(table, id, patch) ==
    [i \in 1..Len(table) |->
        IF table[i].id = id
        THEN [table[i] EXCEPT !.entry_date = patch.entry_date, !.amount = patch.amount,
                              !.tach_hours = patch.tach_hours]
        ELSE table[i]]

\* the answer to the update, and what saveEdit does after it
saveEditAnswered(ok, stage) ==
    /\ pending.op = "update"
    /\ pending' = NoRequest
    /\ saving' = FALSE
    /\ IF ~ok
       THEN /\ mxError' = BackendError
            /\ UNCHANGED <<dbMaintenance, mxLoading, entries, mxRole,
                           operatingTotalAllTime, rentalTotalAllTime, benchmark,
                           accessVars, spendYear, editingId, mxEditDate, editAmount,
                           editTach>>
       ELSE /\ dbMaintenance' = UpdateEntry(dbMaintenance, pending.id, pending.patch)
            /\ loadAllFrom(stage, dbMaintenance')
            /\ editingId' = NoEditing
            /\ mxEditDate' = <<>>
            /\ editAmount' = <<>>
            /\ editTach' = <<>>
    /\ UNCHANGED <<dbRates, dbLogs, nextLogId, today, pageVars, panelVars, siteVars, mxDbVars,
                   allInVars, memo, tzWest, spendView, spendMonth, chartView, trendView,
                   entryDate,
                   amount, tachHours>>

----------------------------------------------------------------------------
(* Aircraft page: the Monthly Spend section, and MonthlyCostChart.tsx *)

\* the day before a date
PrevDay(d) ==
    LET y == d \div 10000
        m0 == ((d \div 100) % 100) - 1
    IN  IF d % 100 > 1 THEN d - 1
        ELSE IF m0 > 0 THEN y * 10000 + m0 * 100 + DaysInMonth(y, m0 - 1)
        ELSE (y - 1) * 10000 + 1231

\* new Date("YYYY-MM-DD") is midnight UTC; its local date is the day before when
\* local time is behind UTC
LocalDateOfUtc(d, west) == IF west THEN PrevDay(d) ELSE d
GetFullYear(d) == d \div 10000
GetMonth(d) == ((d \div 100) % 100) - 1

monthlySpendEntries(es, sv, sy, sm, west) ==
    IF sv = "all" THEN es
    ELSE SelectSeq(es, LAMBDA e :
            /\ e.entry_date # NoDate
            /\ LET d == LocalDateOfUtc(e.entry_date, west)
               IN  IF sv = "year" THEN GetFullYear(d) = sy
                   ELSE GetFullYear(d) = sy /\ GetMonth(d) = sm)

setSpendView(v) ==
    /\ spendView' = v
    /\ UNCHANGED <<dbVars, pageVars, panelVars, siteVars, mxDbVars, aircraftVars, allInVars,
                   memo, tzWest, spendYear, spendMonth, chartView, trendView>>

\* the options of the year select
spendYearOptions == IF spendYears(entries) # {} THEN spendYears(entries)
                    ELSE {today \div 10000}

setSpendYear(y) ==
    /\ spendView # "all"
    /\ y \in spendYearOptions
    /\ spendYear' = y
    /\ UNCHANGED <<dbVars, pageVars, panelVars, siteVars, mxDbVars, aircraftVars, allInVars,
                   memo, tzWest, spendView, spendMonth, chartView, trendView>>

setSpendMonth(m) ==
    /\ spendView = "month"
    /\ spendMonth' = m
    /\ UNCHANGED <<dbVars, pageVars, panelVars, siteVars, mxDbVars, aircraftVars, allInVars,
                   memo, tzWest, spendView, spendYear, chartView, trendView>>

\* a category that is null
NoCategory == "<null>"

\* parseLocalDate keeps the date; the entries of this month, this year or all
filtered(es, v, now) ==
    SelectSeq(es, LAMBDA e :
        /\ e.entry_date # NoDate
        /\ IF v = "month"
           THEN GetFullYear(e.entry_date) = GetFullYear(now)
                /\ GetMonth(e.entry_date) = GetMonth(now)
           ELSE IF v = "year" THEN GetFullYear(e.entry_date) = GetFullYear(now)
           ELSE TRUE)

\* e.category ?? "Other" and e.amount ?? 0
CategoryOrOther(e) == IF e.category = NoCategory THEN "Other" ELSE e.category
AmountOrZero(e) == IF e.amount = Null THEN 0 ELSE e.amount.n

\* the loop of totalsByCategory that leaves out the entries without a category
RECURSIVE totalsSkippingNoCategory(_, _)
totalsSkippingNoCategory(map, fs) ==
    IF fs = <<>> THEN map
    ELSE LET e == Head(fs)
             cat == e.category
             prev == IF cat \in DOMAIN map THEN map[cat] ELSE 0
         IN  IF cat = NoCategory THEN totalsSkippingNoCategory(map, Tail(fs))
             ELSE totalsSkippingNoCategory(
                      [c \in DOMAIN map \cup {cat} |->
                          IF c = cat THEN prev + AmountOrZero(e) ELSE map[c]],
                      Tail(fs))
totalsByCategorySkippingNoCategory(fs) == totalsSkippingNoCategory(<<>>, fs)

\* for (const e of filtered) map[cat] = (map[cat] ?? 0) + (e.amount ?? 0)
RECURSIVE totalsByCategoryLoop(_, _)
totalsByCategoryLoop(map, fs) ==
    IF fs = <<>> THEN map
    ELSE LET e == Head(fs)
             cat == CategoryOrOther(e)
             prev == IF cat \in DOMAIN map THEN map[cat] ELSE 0
         IN  totalsByCategoryLoop(
                 [c \in DOMAIN map \cup {cat} |->
                     IF c = cat THEN prev + AmountOrZero(e) ELSE map[c]],
                 Tail(fs))

totalsByCategory(fs) == totalsByCategoryLoop(<<>>, fs)

\* Object.values(totalsByCategory).reduce((a, b) => a + b, 0)
RECURSIVE chartTotal(_)
chartTotal(map) ==
    IF DOMAIN map = {} THEN 0
    ELSE LET c == CHOOSE x \in DOMAIN map : TRUE
         IN  map[c] + chartTotal([d \in DOMAIN map \ {c} |-> map[d]])

entryCount(fs) == Len(fs)

setChartView(v) ==
    /\ chartView' = v
    /\ UNCHANGED <<dbVars, pageVars, panelVars, siteVars, mxDbVars, aircraftVars, allInVars,
                   memo, tzWest, spendView, spendYear, spendMonth, trendView>>

----------------------------------------------------------------------------
(* Cost-per-hour trend chart *)

\* typeof v === "number"
TypeofNumber(v) == v.k \in {"num", "nan", "inf"}

\* entries.filter(...).sort((a, b) => a.tach_hours - b.tach_hours); the sort is
\* stable, and the tach values sorted here are finite
allUsable(es) ==
    LET kept == SelectSeq(es, LAMBDA e : /\ TypeofNumber(e.amount)
                                         /\ TypeofNumber(e.tach_hours)
                                         /\ e.entry_date # NoDate)
        keyed == SortAsc([i \in 1..Len(kept) |-> <<kept[i].tach_hours.n, kept[i]>>], 1)
    IN  [i \in 1..Len(kept) |-> keyed[i][2]]

\* `${fmtDate(e.entry_date)} (${e.tach_hours.toFixed(1)})`: month and day of the
\* date, and the tach value
trendLabel(e) ==
    [month |-> GetMonth(e.entry_date), day |-> e.entry_date % 100,
     tach |-> e.tach_hours.n]

\* for (const e of allUsable): cumulativeSpend += e.amount ?? 0; hours =
\* e.tach_hours - baseTach; if (hours <= 0) continue; computed.push(...)
RECURSIVE computedLoop(_, _, _)
computedLoop(rest, baseTach, cumulativeSpend) ==
    IF rest = <<>> THEN <<>>
    ELSE LET e == Head(rest)
             spend == cumulativeSpend + e.amount.n
             hours == e.tach_hours.n - baseTach
         IN  (IF hours <= 0 THEN <<>>
              ELSE <<[entry |-> e, label |-> trendLabel(e), cph |-> JsDiv(spend, hours)]>>)
                 \o computedLoop(Tail(rest), baseTach, spend)

computed(es) ==
    LET usable == allUsable(es)
    IN  IF Len(usable) < 2 THEN <<>>
        ELSE computedLoop(usable, usable[1].tach_hours.n, 0)

\* now.getUTCFullYear() and now.getUTCMonth() against those of the entry's date
inView(e, v, now) ==
    IF v = "all" THEN TRUE
    ELSE IF e.entry_date = NoDate THEN FALSE
    ELSE IF v = "year" THEN GetFullYear(e.entry_date) = GetFullYear(now)
    ELSE GetFullYear(e.entry_date) = GetFullYear(now)
         /\ GetMonth(e.entry_date) = GetMonth(now)

\* points whose baseline and cumulative spend start over in the view shown
pointsOfViewOnly(es, v, now) ==
    LET shown == computed(SelectSeq(es, LAMBDA e : inView(e, v, now)))
    IN  [i \in 1..Len(shown) |-> [label |-> shown[i].label, cph |-> shown[i].cph]]

points(es, v, now) ==
    LET shown == SelectSeq(computed(es), LAMBDA p : inView(p.entry, v, now))
    IN  [i \in 1..Len(shown) |-> [label |-> shown[i].label, cph |-> shown[i].cph]]

\* the buttons All / This Year / This Month of the trend chart
setTrendView(v) ==
    /\ trendView' = v
    /\ UNCHANGED <<dbVars, pageVars, panelVars, siteVars, mxDbVars, aircraftVars, allInVars,
                   memo, tzWest, spendView, spendYear, spendMonth, chartView>>

----------------------------------------------------------------------------
(* Rendering: the arrays the aggregations read and the arrays they create.    *)
(* An array is a named cell; filter, map and slice fill a new cell, sort      *)
(* rewrites the cell it is called on.                                         *)

ArrayNames ==
    {"rates", "logs", "maintenance", "entries", "usable", "logsInRange",
     "maintenanceInRange", "logRows", "tachValues", "allUsable"}

ArraysOf(rs, ls, ms, es) ==
    [a \in ArrayNames |->
        CASE a = "rates" -> rs
          [] a = "logs" -> ls
          [] a = "maintenance" -> ms
          [] a = "entries" -> es
          [] OTHER -> <<>>]

\* dst = src.filter(Keep), dst = src.slice(), arr.sort(...)
JsFilter(h, src, dst, Keep(_)) == [h EXCEPT ![dst] = SelectSeq(h[src], Keep)]
JsSlice(h, src, dst) == [h EXCEPT ![dst] = h[src]]
JsSort(h, arr, Sorted(_)) == [h EXCEPT ![arr] = Sorted(h[arr])]

\* sort((a, b) => b.rental_date.localeCompare(a.rental_date)), stable
InsertDesc(s, r, f) ==
    LET k == Cardinality({i \in 1..Len(s) : s[i][f] >= r[f]})
    IN  SubSeq(s, 1, k) \o <<r>> \o SubSeq(s, k + 1, Len(s))

RECURSIVE SortDesc(_, _)
SortDesc(s, f) ==
    IF s = <<>> THEN <<>>
    ELSE InsertDesc(SortDesc(SubSeq(s, 1, Len(s) - 1), f), s[Len(s)], f)

\* rates.filter(...).sort(...)
currentRateArrays(h, day) ==
    LET ByDate(a) == SortAsc(a, "effective_from")
    IN  JsSort(JsFilter(h, "rates", "usable", LAMBDA r : r.effective_from <= day),
               "usable", ByDate)

\* logs.filter(...), maintenance.filter(...)
rangeArrays(h, r) ==
    JsFilter(JsFilter(h, "logs", "logsInRange",
                      LAMBDA l : InRange(l.rental_date, r.start, r.end)),
             "maintenance", "maintenanceInRange",
             LAMBDA m : InRange(m.entry_date, r.start, r.end))

\* logsInRange.slice().sort(...)
logTableArrays(h) ==
    LET ByDateDesc(a) == SortDesc(a, "rental_date")
    IN  JsSort(JsSlice(h, "logsInRange", "logRows"), "logRows", ByDateDesc)

\* the tach values taken after sorting the entries themselves by tach hours
tachValuesArraysSortingEntries(h) ==
    LET Key(e) == IF IsFiniteNumber(e.tach_hours) THEN e.tach_hours.n ELSE 1000000
        ByTach(a) ==
            LET keyed == SortAsc([i \in 1..Len(a) |-> <<Key(a[i]), a[i]>>], 1)
            IN  [i \in 1..Len(a) |-> keyed[i][2]]
        sorted == JsSort(h, "entries", ByTach)
    IN  [sorted EXCEPT !["tachValues"] = finiteTach(sorted["entries"])]

\* entries.map(...).filter(...).sort(...)
tachValuesArrays(h) ==
    JsSort([h EXCEPT !["tachValues"] = finiteTach(h["entries"])], "tachValues",
           SortNumbers)

\* CostPerHourTrendChart: entries.filter(...).sort(...)
trendArrays(h) ==
    LET ByTach(a) ==
            LET keyed == SortAsc([i \in 1..Len(a) |-> <<a[i].tach_hours.n, a[i]>>], 1)
            IN  [i \in 1..Len(a) |-> keyed[i][2]]
    IN  JsSort(JsFilter(h, "entries", "allUsable",
                        LAMBDA e : /\ IsNum(e.amount)
                                   /\ IsFiniteNumber(e.tach_hours)
                                   /\ e.entry_date # NoDate),
               "allUsable", ByTach)

\* a render of the rental panel of page.tsx
renderPanel ==
    LET h == logTableArrays(
                 rangeArrays(currentRateArrays(ArraysOf(rates, logs, maintenance, entries),
                                               today),
                             range(view, selectedYear, selectedMonth0)))
    IN  /\ rates' = h["rates"]
        /\ logs' = h["logs"]
        /\ maintenance' = h["maintenance"]
        /\ memo' = [memo EXCEPT
                       !.currentRate = IF h["rates"] = <<>> THEN Null
                                       ELSE IF h["usable"] # <<>>
                                       THEN h["usable"][Len(h["usable"])]
                                       ELSE h["rates"][Len(h["rates"])],
                       !.logRows = [i \in 1..Len(h["logRows"]) |-> h["logRows"][i].id]]
        /\ UNCHANGED <<dbVars, loading, err, myRole, showRateModal, showLogModal, logRate,
                       view, selectedYear, selectedMonth0, panelVars, siteVars, mxDbVars,
                       aircraftVars, allInVars, chartVars>>

\* a render of the aircraft page
renderAircraft ==
    LET h == trendArrays(tachValuesArrays(ArraysOf(rates, logs, maintenance, entries)))
    IN  /\ entries' = h["entries"]
        /\ memo' = [memo EXCEPT !.tachValues = h["tachValues"]]
        /\ UNCHANGED <<dbVars, pageVars, panelVars, siteVars, mxDbVars, mxLoading, mxError, mxRole,
                       operatingTotalAllTime, rentalTotalAllTime, benchmark, accessVars,
                       entryFormVars, allInVars, chartVars>>

----------------------------------------------------------------------------
(* AllInCostPanel.tsx *)

DEFAULTS ==
    [show_cost_per_hour_summary |-> TRUE, include_maintenance |-> TRUE,
     include_insurance |-> FALSE, include_fuel |-> FALSE,
     include_hangar_tiedown |-> FALSE, include_misc |-> FALSE]

allInCanEdit == mxRole = "owner" \/ mxRole = "admin"

RECURSIVE SumCategory(_, _)
SumCategory(rs, category) ==
    IF rs = <<>> THEN 0
    ELSE (IF Head(rs).category = category THEN NumberOr0(Head(rs).amount) ELSE 0)
         + SumCategory(Tail(rs), category)

opTotals(rs) ==
    [insurance |-> SumCategory(rs, "insurance"), fuel |-> SumCategory(rs, "fuel"),
     hangar_tiedown |-> SumCategory(rs, "hangar_tiedown"),
     misc |-> SumCategory(rs, "misc")]

includedCost(st, maintenanceSpendAllTime, byCategory) ==
      (IF st.include_maintenance THEN maintenanceSpendAllTime ELSE 0)
    + (IF st.include_fuel THEN byCategory.fuel ELSE 0)
    + (IF st.include_insurance THEN byCategory.insurance ELSE 0)
    + (IF st.include_hangar_tiedown THEN byCategory.hangar_tiedown ELSE 0)
    + (IF st.include_misc THEN byCategory.misc ELSE 0)

allIn(included, hoursFlownAllTime) ==
    LET hrs == hoursFlownAllTime
    IN  IF hrs <= 0 THEN Null ELSE JsDiv(included, hrs)

allInLoad(settingsOk, opOk) ==
    /\ aiLoading
    /\ aiLoading' = FALSE
    /\ IF ~settingsOk
       THEN /\ aiErr' = BackendError
            /\ UNCHANGED <<settings, op>>
       ELSE /\ settings' = IF dbSettings = Null THEN settings ELSE dbSettings
            /\ IF ~opOk
               THEN /\ aiErr' = BackendError
                    /\ UNCHANGED op
               ELSE /\ aiErr' = NoErr
                    /\ op' = dbOp
    /\ UNCHANGED <<dbVars, pageVars, panelVars, siteVars, mxDbVars, aircraftVars, chartVars, memo>>

saveSettings(field, value, ok) ==
    /\ ~aiLoading
    /\ allInCanEdit
    /\ LET next == [settings EXCEPT ![field] = value]
       IN  IF ~ok
           THEN /\ aiErr' = BackendError
                /\ UNCHANGED <<dbSettings, settings>>
           ELSE /\ aiErr' = NoErr
                /\ dbSettings' = next
                /\ settings' = next
    /\ UNCHANGED <<dbVars, pageVars, panelVars, siteVars, dbBenchmarks, dbSums, dbMember,
                   dbOp, dbAircraft,
                   aircraftVars, aiLoading, op, chartVars, memo>>

\* nothing computed yet
NoMemo == [currentRate |-> Null, logRows |-> <<>>, tachValues |-> <<>>]

InitAircraft ==
    /\ mxLoading = TRUE
    /\ entries = <<>>
    /\ mxError = NoErr
    /\ mxRole = NoRole
    /\ operatingTotalAllTime = 0
    /\ rentalTotalAllTime = 0
    /\ benchmark = Null
    /\ aircraft = NoAircraft
    /\ roleLoading = TRUE
    /\ queried = {}
    /\ saving = FALSE
    /\ entryDate = <<>>
    /\ amount = <<>>
    /\ tachHours = <<>>
    /\ editingId = NoEditing
    /\ mxEditDate = <<>>
    /\ editAmount = <<>>
    /\ editTach = <<>>
    /\ pending = NoRequest
    /\ aiLoading = TRUE
    /\ settings = DEFAULTS
    /\ op = <<>>
    /\ aiErr = NoErr
    /\ spendView = "all"
    /\ spendYear = today \div 10000
    /\ spendMonth = ((today \div 100) % 100) - 1
    /\ chartView = "all"
    /\ trendView = "all"
    /\ memo = NoMemo

\* the tables of the aircraft page, empty
NoAircraftTables ==
    /\ dbBenchmarks = <<>>
    /\ dbSums = [t \in {"operating_expenses", "operating_costs", "rental_income",
                        "rental_revenue"} |-> MissingTable]
    /\ dbMember = NoRole
    /\ dbAircraft = TheAircraft
    /\ dbSettings = Null
    /\ dbOp = <<>>
    /\ tzWest = FALSE

----------------------------------------------------------------------------
(* Home page: the list of aircraft and the form that adds one *)

\* userId === null, the signed-in user, and error === null
NoUser == "<null>"
TheUser == "user-1"

\* a row of aircraft_members
Membership(aircraftRowId, user, role) ==
    [aircraft_id |-> aircraftRowId, user_id |-> user, role |-> role]

\* select ... order by created_at descending, for an admin
AllAircraft(table) == [i \in 1..Len(table) |-> [id |-> table[Len(table) + 1 - i].id,
                                                role |-> "admin"]]

\* the aircraft joined to the memberships of a user, newest first
RECURSIVE AircraftOfMember(_, _, _)
AircraftOfMember(table, memberships, user) ==
    IF table = <<>> THEN <<>>
    ELSE LET a == table[Len(table)]
             mine == {m \in memberships : m.aircraft_id = a.id /\ m.user_id = user}
             rest == AircraftOfMember(SubSeq(table, 1, Len(table) - 1), memberships, user)
         IN  IF mine = {} THEN rest
             ELSE <<[id |-> a.id, role |-> (CHOOSE m \in mine : TRUE).role]>> \o rest

\* the state loadAircraft leaves over the two tables
loadAircraftFrom(ok, table, memberships) ==
    /\ homeLoading' = FALSE
    /\ IF homeUserId = NoUser
       THEN /\ homeAircraft' = <<>>
            /\ homeError' = NoErr
       ELSE IF ~ok
       THEN /\ homeError' = "Failed to load aircraft."
            /\ homeAircraft' = <<>>
       ELSE /\ homeError' = NoErr
            /\ homeAircraft' = IF homeIsAdmin THEN AllAircraft(table)
                               ELSE AircraftOfMember(table, memberships, homeUserId)

\* the effect on userId, isAdmin and adminLoading
loadAircraft(ok) ==
    /\ homeLoading
    /\ loadAircraftFrom(ok, dbFleet, dbMemberships)
    /\ UNCHANGED <<dbVars, pageVars, panelVars, mxDbVars, aircraftVars, allInVars,
                   chartVars, memo, memberVars, inviteVars, dbFleet, dbMemberships, homeUserId, homeIsAdmin,
                   homeSaving, homeYear>>

\* onChange of the year field
setYear(t) ==
    /\ ~homeLoading
    /\ homeYear' = t
    /\ UNCHANGED <<dbVars, pageVars, panelVars, mxDbVars, aircraftVars, allInVars,
                   chartVars, memo, memberVars, inviteVars, dbFleet, dbMemberships, homeUserId, homeIsAdmin,
                   homeAircraft, homeLoading, homeError, homeSaving>>

\* year.trim() === "" ? null : Number.isFinite(Number(year)) ? Number(year) : NaN
parsedYear(t) == FieldNumber(t)

\* submit of the form; stage names the request that fails, "none" when all succeed
addAircraft(stage, reloadOk) ==
    /\ ~homeLoading
    /\ ~homeSaving
    /\ homeSaving' = FALSE
    /\ IF homeUserId = NoUser
       THEN /\ homeError' = "You must be logged in to save an aircraft."
            /\ UNCHANGED <<dbFleet, dbMemberships, homeAircraft, homeLoading, homeYear>>
       ELSE IF parsedYear(homeYear) = NaN
       THEN /\ homeError' = "Year must be a number (or leave it blank)."
            /\ UNCHANGED <<dbFleet, dbMemberships, homeAircraft, homeLoading, homeYear>>
       ELSE IF stage = "aircraft"
       THEN /\ homeError' = BackendError
            /\ UNCHANGED <<dbFleet, dbMemberships, homeAircraft, homeLoading, homeYear>>
       ELSE LET created == [id |-> Len(dbFleet) + 1, user_id |-> homeUserId,
                            year |-> parsedYear(homeYear)]
            IN  /\ dbFleet' = Append(dbFleet, created)
                /\ IF stage = "members"
                   THEN /\ homeError' = BackendError
                        /\ UNCHANGED <<dbMemberships, homeAircraft, homeLoading, homeYear>>
                   ELSE /\ dbMemberships' =
                              dbMemberships \cup {Membership(created.id, homeUserId, "owner")}
                        /\ homeYear' = <<>>
                        /\ loadAircraftFrom(reloadOk, dbFleet', dbMemberships')
    /\ UNCHANGED <<dbVars, pageVars, panelVars, mxDbVars, aircraftVars, allInVars,
                   chartVars, memo, memberVars, inviteVars, homeUserId, homeIsAdmin>>

InitHome ==
    /\ homeUserId = TheUser
    /\ homeIsAdmin = FALSE
    /\ homeAircraft = <<>>
    /\ homeLoading = TRUE
    /\ homeError = NoErr
    /\ homeSaving = FALSE
    /\ homeYear = <<>>

----------------------------------------------------------------------------
(* Aircraft page: MembersPanel, open in several browser sessions *)

Sessions == {"tab-1", "tab-2"}

\* the users, in the order their membership rows were created
Users == <<"user-1", "user-2", "user-3", "user-4", "user-5">>

\* the aircraft the panels are about
PanelAircraft == 1

\* no confirmAction
NoAction == [kind |-> "none"]

\* all that the panel leaves alone
besideMembers == <<dbVars, pageVars, panelVars, mxDbVars, aircraftVars, allInVars,
                   chartVars, memo, dbFleet, homeUserId, homeIsAdmin, homeAircraft,
                   homeLoading, homeError, homeSaving, homeYear, inviteVars>>

membersCanEdit(s) == panelRole[s] = "owner" \/ panelRole[s] = "admin"

\* the rows of the aircraft with a role, in creation order
RowsWithRole(table, role) ==
    LET row(i) == [user_id |-> Users[i], role |-> role]
        has(i) == Membership(PanelAircraft, Users[i], role) \in table
    IN  SelectSeq([i \in 1..Len(Users) |-> IF has(i) THEN row(i) ELSE Null],
                  LAMBDA r : r # Null)

\* select ... order by role, created_at; then rows.sort(owner first)
SelectMembers(table) == RowsWithRole(table, "owner") \o RowsWithRole(table, "member")

\* members.find((m) => m.user_id === user), Null when there is none
FindMember(list, user) ==
    IF \E i \in 1..Len(list) : list[i].user_id = user
    THEN list[CHOOSE i \in 1..Len(list) : list[i].user_id = user]
    ELSE Null

\* the state loadMembers leaves in a session over the table
loadMembersFrom(s, ok, table) ==
    IF ok
    THEN /\ members' = [members EXCEPT ![s] = SelectMembers(table)]
         /\ membersErr' = [membersErr EXCEPT ![s] = ""]
    ELSE /\ members' = [members EXCEPT ![s] = <<>>]
         /\ membersErr' = [membersErr EXCEPT ![s] = BackendError]

\* the mount effect and the Refresh button
loadMembers(s, ok) ==
    /\ loadMembersFrom(s, ok, dbMemberships)
    /\ UNCHANGED <<besideMembers, dbMemberships, panelRole, confirmOpen, confirmAction>>

\* Make Owner and Remove of a row: the buttons of the rows that are not the owner's;
\* the action keeps the handler of the render it was made in, and its members
openConfirm(s, kind, user) ==
    /\ membersCanEdit(s)
    /\ ~confirmOpen[s]
    /\ FindMember(members[s], user) # Null
    /\ FindMember(members[s], user).role # "owner"
    /\ confirmOpen' = [confirmOpen EXCEPT ![s] = TRUE]
    /\ confirmAction' = [confirmAction EXCEPT
                            ![s] = [kind |-> kind, user |-> user, members |-> members[s]]]
    /\ UNCHANGED <<besideMembers, dbMemberships, panelRole, members, membersErr>>

\* Cancel, or a click outside the dialog
cancelConfirm(s) ==
    /\ confirmOpen[s]
    /\ confirmOpen' = [confirmOpen EXCEPT ![s] = FALSE]
    /\ UNCHANGED <<besideMembers, dbMemberships, panelRole, members, membersErr,
                   confirmAction>>

\* rpc transfer_aircraft_ownership: the member becomes the owner and the owner a
\* member
TransferOwnership(table, user) ==
    {IF m.aircraft_id # PanelAircraft THEN m
     ELSE IF m.user_id = user THEN [m EXCEPT !.role = "owner"]
     ELSE [m EXCEPT !.role = "member"] : m \in table}

IsMember(table, user) ==
    \E m \in table : m.aircraft_id = PanelAircraft /\ m.user_id = user

doMakeOwner(s, userIdToPromote, ok, reloadOk) ==
    IF ~ok \/ ~IsMember(dbMemberships, userIdToPromote)
    THEN /\ membersErr' = [membersErr EXCEPT ![s] = BackendError]
         /\ UNCHANGED <<dbMemberships, members>>
    ELSE /\ dbMemberships' = TransferOwnership(dbMemberships, userIdToPromote)
         /\ loadMembersFrom(s, reloadOk, dbMemberships')

\* delete ... eq("aircraft_id", aircraftId).eq("user_id", user)
DeleteMember(table, user) ==
    {m \in table : ~(m.aircraft_id = PanelAircraft /\ m.user_id = user)}

\* listed is the members of the render the handler belongs to
doRemoveMember(s, listed, userIdToRemove, ok, reloadOk) ==
    LET target == FindMember(listed, userIdToRemove)
    IN  IF target # Null /\ target.role = "owner"
        THEN /\ membersErr' = [membersErr EXCEPT
                                  ![s] = "You can't remove the owner. Transfer ownership first."]
             /\ UNCHANGED <<dbMemberships, members>>
        ELSE IF ~ok
        THEN /\ membersErr' = [membersErr EXCEPT ![s] = BackendError]
             /\ UNCHANGED <<dbMemberships, members>>
        ELSE /\ dbMemberships' = DeleteMember(dbMemberships, userIdToRemove)
             /\ loadMembersFrom(s, reloadOk, dbMemberships')

\* Confirm: setConfirmOpen(false), then the handler of the action
confirm(s, ok, reloadOk) ==
    /\ confirmOpen[s]
    /\ confirmAction[s] # NoAction
    /\ confirmOpen' = [confirmOpen EXCEPT ![s] = FALSE]
    /\ IF confirmAction[s].kind = "makeOwner"
       THEN doMakeOwner(s, confirmAction[s].user, ok, reloadOk)
       ELSE doRemoveMember(s, confirmAction[s].members, confirmAction[s].user, ok,
                           reloadOk)
    /\ UNCHANGED <<besideMembers, panelRole, confirmAction>>

InitMembers ==
    /\ panelRole = [s \in Sessions |-> NoRole]
    /\ members = [s \in Sessions |-> <<>>]
    /\ membersErr = [s \in Sessions |-> ""]
    /\ confirmOpen = [s \in Sessions |-> FALSE]
    /\ confirmAction = [s \in Sessions |-> NoAction]

----------------------------------------------------------------------------
(* The invite page and the login page *)

\* texts, character by character
SlashInvite == <<"/", "i", "n", "v", "i", "t", "e", "/">>
SlashLogin == <<"/", "l", "o", "g", "i", "n">>
SlashApp == <<"/", "a", "p", "p">>
SlashAircraft == <<"/", "a", "i", "r", "c", "r", "a", "f", "t", "/">>
NextKey == <<"n", "e", "x", "t">>

startsWith(t, prefix) == Len(t) >= Len(prefix) /\ SubSeq(t, 1, Len(prefix)) = prefix

\* searchParams.get gave null
NoParam == <<"<null>">>

\* the characters encodeURIComponent escapes, among those of the model, with
\* their escapes
Escapes ==
    [c \in {"/", "&", "%", "=", "?", "+", " ", ":"} |->
        CASE c = "/" -> <<"%", "2", "F">>
          [] c = "&" -> <<"%", "2", "6">>
          [] c = "%" -> <<"%", "2", "5">>
          [] c = "=" -> <<"%", "3", "D">>
          [] c = "?" -> <<"%", "3", "F">>
          [] c = "+" -> <<"%", "2", "B">>
          [] c = " " -> <<"%", "2", "0">>
          [] c = ":" -> <<"%", "3", "A">>]

RECURSIVE encodeURIComponent(_)
encodeURIComponent(t) ==
    IF t = <<>> THEN <<>>
    ELSE (IF Head(t) \in DOMAIN Escapes THEN Escapes[Head(t)] ELSE <<Head(t)>>)
             \o encodeURIComponent(Tail(t))

\* the decoding of a value of the query string: + is a space, %XX a character
RECURSIVE DecodeValue(_)
DecodeValue(t) ==
    IF t = <<>> THEN <<>>
    ELSE IF Head(t) = "+" THEN <<" ">> \o DecodeValue(Tail(t))
    ELSE IF Len(t) >= 3 /\ \E c \in DOMAIN Escapes : Escapes[c] = SubSeq(t, 1, 3)
    THEN <<CHOOSE c \in DOMAIN Escapes : Escapes[c] = SubSeq(t, 1, 3)>>
             \o DecodeValue(SubSeq(t, 4, Len(t)))
    ELSE <<Head(t)>> \o DecodeValue(Tail(t))

\* the text before the first occurrence of a character, and the text after it
RECURSIVE Before(_, _)
Before(t, c) ==
    IF t = <<>> \/ Head(t) = c THEN <<>> ELSE <<Head(t)>> \o Before(Tail(t), c)
After(t, c) ==
    IF Len(Before(t, c)) = Len(t) THEN <<>>
    ELSE SubSeq(t, Len(Before(t, c)) + 2, Len(t))

\* searchParams.get(key) over a query string
RECURSIVE SearchGet(_, _)
SearchGet(search, key) ==
    IF search = <<>> THEN NoParam
    ELSE LET pair == Before(search, "&")
         IN  IF DecodeValue(Before(pair, "=")) = key
             THEN DecodeValue(After(pair, "="))
             ELSE SearchGet(After(search, "&"), key)

\* the location a URL of the site names
Url(t) == [path |-> Before(t, "?"), search |-> After(t, "?")]

safeNextPath(raw) ==
    IF raw = NoParam \/ raw = <<>> THEN NoParam
    ELSE IF ~startsWith(raw, <<"/">>) THEN NoParam
    ELSE IF startsWith(raw, <<"/", "/">>) THEN NoParam
    ELSE raw

\* LoginPage: safeNextPath(searchParams.get("next")) || "/app"
nextPath(search) ==
    LET safe == safeNextPath(SearchGet(search, NextKey))
    IN  IF safe = NoParam THEN SlashApp ELSE safe

\* LoginClient: sp.get("next") || "/app"
nextUrl(search) ==
    LET raw == SearchGet(search, NextKey)
    IN  IF raw = NoParam \/ raw = <<>> THEN SlashApp ELSE raw

\* LoginClient of part_001: n when n && n.startsWith("/"), else "/app"
nextUrlWithSlash(search) ==
    LET n == SearchGet(search, NextKey)
    IN  IF n # NoParam /\ n # <<>> /\ startsWith(n, <<"/">>) THEN n ELSE SlashApp

\* where the login page goes after login
loginTarget(search) ==
    CASE loginComponent = "LoginPage" -> nextPath(search)
      [] loginComponent = "LoginClient" -> nextUrl(search)
      [] OTHER -> nextUrlWithSlash(search)

OnInvite == startsWith(location.path, SlashInvite)
OnLogin == location.path = SlashLogin

\* String(params?.token || "")
token == SubSeq(location.path, Len(SlashInvite) + 1, Len(location.path))

\* the URL the invite page sends a visitor without a session to
loginUrl(tok) ==
    SlashLogin \o <<"?">> \o NextKey \o <<"=">> \o encodeURIComponent(SlashInvite \o tok)

\* all that the two pages leave alone
besideInvite == <<dbVars, pageVars, panelVars, mxDbVars, aircraftVars, allInVars,
                  chartVars, memo, homeVars, memberVars>>

\* router.replace(url), which mounts the page of the URL
replace(url) ==
    /\ location' = Url(url)
    /\ effectPending' = TRUE
    /\ inviteLoading' = TRUE
    /\ inviteError' = NoErr
    /\ loginError' = NoErr
    /\ email' = <<>>
    /\ password' = <<>>
    /\ acceptedTerms' = FALSE
    /\ mode' = "login"
    /\ busy' = FALSE

\* a navigation while handleSubmit awaits: the form is unmounted, the answer
\* still comes
navigate(url) ==
    /\ replace(url)
    /\ authPending' = IF authPending = NoRequest THEN NoRequest
                      ELSE [authPending EXCEPT !.mounted = FALSE]

\* the visitor opens the link of an invite
openInvite(tok) ==
    /\ navigate(SlashInvite \o tok)
    /\ UNCHANGED <<besideInvite, authSession, acceptCalls, loginComponent, authCalls>>

\* the visitor opens /login with a query string
openLogin(search) ==
    /\ navigate(IF search = <<>> THEN SlashLogin ELSE SlashLogin \o <<"?">> \o search)
    /\ UNCHANGED <<besideInvite, authSession, acceptCalls, loginComponent, authCalls>>

\* the mount effect of InviteAcceptPage
inviteEffect ==
    /\ OnInvite
    /\ effectPending
    /\ IF ~authSession
       THEN navigate(loginUrl(token))
       ELSE /\ effectPending' = FALSE
            /\ inviteLoading' = FALSE
            /\ inviteError' = NoErr
            /\ UNCHANGED <<location, loginError, email, password, acceptedTerms, mode,
                           busy, authPending>>
    /\ UNCHANGED <<besideInvite, authSession, acceptCalls, loginComponent, authCalls>>

\* Accept Invite; the rpc gives the id of the aircraft to a signed-in user
acceptInvite(ok) ==
    /\ OnInvite
    /\ ~inviteLoading
    /\ inviteError = NoErr
    /\ acceptCalls' = acceptCalls \cup {[p_token |-> token, authenticated |-> authSession]}
    /\ IF ok /\ authSession
       THEN navigate(SlashAircraft \o <<"1">>)
       ELSE /\ inviteError' = BackendError
            /\ UNCHANGED <<location, effectPending, inviteLoading, loginError, email,
                           password, acceptedTerms, mode, busy, authPending>>
    /\ UNCHANGED <<besideInvite, authSession, loginComponent, authCalls>>

\* the mount effect of the login page
loginEffect ==
    /\ OnLogin
    /\ effectPending
    /\ IF authSession
       THEN navigate(loginTarget(location.search))
       ELSE /\ effectPending' = FALSE
            /\ UNCHANGED <<location, inviteLoading, inviteError, loginError, email,
                           password, acceptedTerms, mode, busy, authPending>>
    /\ UNCHANGED <<besideInvite, authSession, acceptCalls, loginComponent, authCalls>>

\* onChange of the fields of PasswordLoginBox, and the switch of its mode
setEmail(t) ==
    /\ OnLogin
    /\ email' = t
    /\ UNCHANGED <<besideInvite, authSession, location, effectPending, inviteLoading,
                   inviteError, acceptCalls, loginComponent, loginError, password,
                   acceptedTerms, mode, busy, authPending, authCalls>>

setPassword(t) ==
    /\ OnLogin
    /\ password' = t
    /\ UNCHANGED <<besideInvite, authSession, location, effectPending, inviteLoading,
                   inviteError, acceptCalls, loginComponent, loginError, email,
                   acceptedTerms, mode, busy, authPending, authCalls>>

setAcceptedTerms(b) ==
    /\ OnLogin
    /\ acceptedTerms' = b
    /\ UNCHANGED <<besideInvite, authSession, location, effectPending, inviteLoading,
                   inviteError, acceptCalls, loginComponent, loginError, email,
                   password, mode, busy, authPending, authCalls>>

\* the button that switches the mode is disabled while busy
setMode ==
    /\ OnLogin
    /\ ~busy
    /\ mode' = IF mode = "login" THEN "signup" ELSE "login"
    /\ UNCHANGED <<besideInvite, authSession, location, effectPending, inviteLoading,
                   inviteError, acceptCalls, loginComponent, loginError, email,
                   password, acceptedTerms, busy, authPending, authCalls>>

\* the message handleSubmit turns the form down with before any call, NoErr when
\* it goes on to the call
formErrorWithoutTerms(emailText, passwordText, formMode, accepted) ==
    IF "@" \notin {emailText[i] : i \in 1..Len(emailText)} THEN "Enter a valid email."
    ELSE IF Len(passwordText) < 6 THEN "Password must be at least 6 characters."
    ELSE NoErr

formError(emailText, passwordText, formMode, accepted) ==
    IF "@" \notin {emailText[i] : i \in 1..Len(emailText)} THEN "Enter a valid email."
    ELSE IF Len(passwordText) < 6 THEN "Password must be at least 6 characters."
    ELSE IF formMode = "signup" /\ ~accepted
    THEN "You must accept the Terms of Service to continue."
    ELSE NoErr

\* Login / Sign Up, up to its await or to its return: onError(null),
\* setBusy(true), the checks, the call; a form turned down runs finally at once.
\* The model holds one call in flight at a time.
handleSubmit ==
    /\ OnLogin
    /\ ~busy
    /\ authPending = NoRequest
    /\ IF formError(email, password, mode, acceptedTerms) # NoErr
       THEN /\ loginError' = formError(email, password, mode, acceptedTerms)
            /\ busy' = FALSE
            /\ UNCHANGED <<authPending, authCalls>>
       ELSE /\ loginError' = NoErr
            /\ busy' = TRUE
            /\ authPending' =
                   [op |-> IF mode = "login" THEN "signInWithPassword" ELSE "signUp",
                    target |-> loginTarget(location.search),
                    mounted |-> TRUE]
            /\ authCalls' = authCalls \cup
                   {[op |-> IF mode = "login" THEN "signInWithPassword" ELSE "signUp",
                     email |-> email,
                     password |-> password,
                     acceptedTerms |-> acceptedTerms]}
    /\ UNCHANGED <<besideInvite, authSession, location, effectPending, inviteLoading,
                   inviteError, acceptCalls, loginComponent, email, password,
                   acceptedTerms, mode>>

\* whether handleSubmit redirects after the call returned without error: after
\* signInWithPassword always; after signUp never in part_010, with a session in
\* LoginClient.tsx, always in part_001
redirectsAfter(call, withSession) ==
    \/ call = "signInWithPassword"
    \/ loginComponent = "LoginClient" /\ withSession
    \/ loginComponent = "LoginClient/part_001"

\* the rest of handleSubmit, from the answer of supabase.auth on: ok is whether
\* it returned without error, withSession whether signUp gave a session
handleSubmitAnswered(ok, withSession) ==
    /\ authPending # NoRequest
    /\ authPending' = NoRequest
    /\ authSession' = (authSession \/ (ok /\ (authPending.op = "signInWithPassword"
                                               \/ withSession)))
    /\ IF ok /\ redirectsAfter(authPending.op, withSession)
       THEN replace(authPending.target)
       ELSE IF authPending.mounted
       THEN /\ loginError' = IF ok THEN loginError ELSE "Auth error"
            /\ busy' = FALSE
            /\ UNCHANGED <<location, effectPending, inviteLoading, inviteError, email,
                           password, acceptedTerms, mode>>
       ELSE UNCHANGED <<location, effectPending, inviteLoading, inviteError,
                        loginError, email, password, acceptedTerms, mode, busy>>
    /\ UNCHANGED <<besideInvite, acceptCalls, loginComponent, authCalls>>

\* Logout on the home page in another tab of the browser: supabase.auth.signOut()
handleLogout ==
    /\ authSession
    /\ authSession' = FALSE
    /\ UNCHANGED <<besideInvite, location, effectPending, inviteLoading, inviteError,
                   acceptCalls, loginComponent, loginError, email, password,
                   acceptedTerms, mode, busy, authPending, authCalls>>

InitInvite ==
    /\ authSession = FALSE
    /\ location = Url(SlashApp)
    /\ effectPending = FALSE
    /\ inviteLoading = TRUE
    /\ inviteError = NoErr
    /\ acceptCalls = {}
    /\ loginComponent = "LoginPage"
    /\ loginError = NoErr
    /\ email = <<>>
    /\ password = <<>>
    /\ acceptedTerms = FALSE
    /\ mode = "login"
    /\ busy = FALSE
    /\ authPending = NoRequest
    /\ authCalls = {}

\* the other pages of the site, not opened
InitSite ==
    /\ dbFleet = <<>>
    /\ dbMemberships = {}
    /\ InitHome
    /\ InitMembers
    /\ InitInvite

----------------------------------------------------------------------------
(* Specifications *)

InitPage ==
    /\ loading = TRUE
    /\ rates = <<>>
    /\ logs = <<>>
    /\ maintenance = <<>>
    /\ err = NoErr
    /\ showRateModal = FALSE
    /\ showLogModal = FALSE
    /\ logRate = <<>>
    /\ view = "year"
    /\ selectedYear = today \div 10000
    /\ selectedMonth0 = ((today \div 100) % 100) - 1

InitPanel ==
    /\ pLoading = TRUE
    /\ pCurrentRate = Null
    /\ pLogs = <<>>
    /\ pError = NoErr
    /\ logOpen = FALSE
    /\ rateOpen = FALSE
    /\ editOpen = FALSE
    /\ editRow = Null

\* rental logs left in the table by earlier sessions
StoredLog(i, date, h, r) ==
    [id |-> i, rental_date |-> date, hours |-> Num(h), hourly_rate |-> Num(r)]
StoredLogTables ==
    {<<StoredLog(1, 20250305, 2, 150)>>,
     <<StoredLog(1, 20250710, 3, 0), StoredLog(2, 20250305, 2, 150)>>}

\* The rate table: the panel of page.tsx saving rates over stored logs
Init ==
    /\ dbRates = <<>>
    /\ dbLogs = <<>>
    /\ dbMaintenance = <<>>
    /\ nextLogId = Len(dbLogs) + 1
    /\ today \in Todays
    /\ myRole = "owner"
    /\ InitPage
    /\ InitPanel
    /\ InitAircraft
    /\ InitSite
    /\ NoAircraftTables

Next ==
    \/ \E ok \in BOOLEAN : load(ok)
    \/ openRateModal
    \/ closeRateModal
    \/ \E t \in RateTexts, d \in RateDates, i \in BOOLEAN, r \in BOOLEAN :
          Len(dbRates) < MaxRates /\ saveRate(t, d, i, r)

Spec == Init /\ [][Next]_vars

\* Both panels saving rates over stored logs
FrameRateTexts == {<<"a">>, <<"2", "0", "0">>}
FrameRateDates == {NoDate, 20250301, 20250701}

InitFrame ==
    /\ dbRates = <<>>
    /\ dbLogs \in StoredLogTables
    /\ dbMaintenance = <<>>
    /\ nextLogId = Len(dbLogs) + 1
    /\ today = 20250601
    /\ myRole = "owner"
    /\ InitPage
    /\ InitPanel
    /\ InitAircraft
    /\ InitSite
    /\ NoAircraftTables

NextFrame ==
    \/ \E ok \in BOOLEAN : load(ok)
    \/ openRateModal
    \/ closeRateModal
    \/ \E t \in FrameRateTexts, d \in FrameRateDates, i \in BOOLEAN, r \in BOOLEAN :
          Len(dbRates) < MaxFrameRates /\ saveRate(t, d, i, r)
    \/ \E ok \in BOOLEAN : refresh(ok)
    \/ openRate
    \/ closeModal
    \/ \E t \in FrameRateTexts, d \in FrameRateDates, i \in BOOLEAN, r \in BOOLEAN :
          Len(dbRates) < MaxFrameRates /\ submitRate(t, d, i, r)

SpecFrame == InitFrame /\ [][NextFrame]_vars

\* The older panel: logging hours, setting rates and editing logs
MaxPanelRates == 2
MaxPanelLogs == 2
PanelRateTexts == {<<"a">>, <<"1", "0", "0">>, <<"2", "0", "0">>}
PanelRateDates == {NoDate, 20250101, 20250301}
PanelLogDates == {NoDate, 20250305}
PanelHoursTexts == {<<"x">>, <<"2">>, <<"3">>}

InitPanelSpec ==
    /\ dbRates = <<>>
    /\ dbLogs = <<>>
    /\ dbMaintenance = <<>>
    /\ nextLogId = 1
    /\ today = 20250601
    /\ myRole = "owner"
    /\ InitPage
    /\ InitPanel
    /\ InitAircraft
    /\ InitSite
    /\ NoAircraftTables

NextPanel ==
    \/ \E ok \in BOOLEAN : refresh(ok)
    \/ openRate
    \/ openLog
    \/ \E i \in 1..MaxPanelLogs : openEdit(i)
    \/ closeModal
    \/ \E d \in PanelLogDates, h \in PanelHoursTexts, ok \in BOOLEAN, r \in BOOLEAN :
          nextLogId <= MaxPanelLogs /\ submitLog(d, h, ok, r)
    \/ \E t \in PanelRateTexts, d \in PanelRateDates, i \in BOOLEAN, r \in BOOLEAN :
          Len(dbRates) < MaxPanelRates /\ submitRate(t, d, i, r)
    \/ \E d \in PanelLogDates, h \in PanelHoursTexts, q \in BOOLEAN, u \in BOOLEAN,
          r \in BOOLEAN :
          saveChanges(d, h, q, u, r)

SpecPanel == InitPanelSpec /\ [][NextPanel]_vars

\* The read path of the page.tsx panel: stored logs and maintenance entries
\* viewed by month, by year and over all time
MaxViewLogs == 2
MaxViewMaint == 2
YearChoices == {2024, 2025}
MonthChoices == {2}

StoredEntry(i, date, amt) == [id |-> i, entry_date |-> date, amount |-> amt]

LogCandidates ==
    {StoredLog(0, 20250305, 2, 150), StoredLog(0, 20250331, 3, 0),
     StoredLog(0, 20250710, 1, 200), StoredLog(0, 20240229, 2, 100)}
MaintenanceCandidates ==
    {StoredEntry(0, 20250305, Num(100)), StoredEntry(0, 20250710, Num(50)),
     StoredEntry(0, NoDate, Num(40)), StoredEntry(0, 20250331, Null),
     StoredEntry(0, 20240229, Num(70))}

\* the tables of at most n rows drawn from a set of rows, ids in insertion order
TablesOf(rowset, n) ==
    LET seqs == UNION {[1..k -> rowset] : k \in 0..n}
    IN  {[i \in 1..Len(t) |-> [t[i] EXCEPT !.id = i]] : t \in seqs}

InitView ==
    /\ dbRates = <<>>
    /\ dbLogs \in TablesOf(LogCandidates, MaxViewLogs)
    /\ dbMaintenance \in TablesOf(MaintenanceCandidates, MaxViewMaint)
    /\ nextLogId = Len(dbLogs) + 1
    /\ today = 20250601
    /\ myRole = "owner"
    /\ InitPage
    /\ InitPanel
    /\ InitAircraft
    /\ InitSite
    /\ NoAircraftTables

NextView ==
    \/ \E ok \in BOOLEAN : load(ok)
    \/ \E v \in {"month", "year", "all"} : setView(v)
    \/ \E y \in YearChoices : setSelectedYear(y)
    \/ \E m \in MonthChoices : setSelectedMonth0(m)

SpecView == InitView /\ [][NextView]_vars

\* The year and its months over logs and maintenance entries dated on the first
\* and last days of months and of years
MaxYearLogs == 2
MaxYearMaint == 2
YearLogCandidates ==
    {StoredLog(0, 20250131, 2, 150), StoredLog(0, 20250201, 3, 100),
     StoredLog(0, 20251231, 1, 200), StoredLog(0, 20241231, 4, 50)}
YearMaintCandidates ==
    {StoredEntry(0, 20250228, Num(100)), StoredEntry(0, 20250301, Num(50)),
     StoredEntry(0, 20240229, Num(70))}

InitYear ==
    /\ dbRates = <<>>
    /\ dbLogs \in TablesOf(YearLogCandidates, MaxYearLogs)
    /\ dbMaintenance \in TablesOf(YearMaintCandidates, MaxYearMaint)
    /\ nextLogId = Len(dbLogs) + 1
    /\ today = 20250601
    /\ myRole = "owner"
    /\ InitPage
    /\ InitPanel
    /\ InitAircraft
    /\ InitSite
    /\ NoAircraftTables

NextYear ==
    \/ \E ok \in BOOLEAN : load(ok)
    \/ \E v \in {"year", "all"} : setView(v)
    \/ \E y \in YearChoices : setSelectedYear(y)

SpecYear == InitYear /\ [][NextYear]_vars

\* The aircraft page loading stored maintenance entries
MaxEntries == 3
StoredMx(i, date, amt, tach) ==
    [id |-> i, entry_date |-> date, amount |-> amt, tach_hours |-> tach]
EntryCandidates ==
    {StoredMx(0, 20250305, Num(66), Num(3)), StoredMx(0, 20250710, Num(75), Num(5)),
     StoredMx(0, NoDate, Num(50), Num(3)), StoredMx(0, 20250305, Null, Num(4)),
     StoredMx(0, 20250710, Null, NaN), StoredMx(0, NoDate, Null, Null)}
StoredBenchmark(date, cost) == [effective_date |-> date, hourly_cost |-> cost]
BenchmarkTables ==
    {<<>>, <<StoredBenchmark(20240101, 0)>>,
     <<StoredBenchmark(20250101, 60), StoredBenchmark(20240101, 45)>>}
SumRow(amt, rev) == [amount |-> amt, revenue |-> rev]
SumTables ==
    {[operating_expenses |-> MissingTable,
      operating_costs |-> Table(<<SumRow(Num(100), Num(20)), SumRow(Null, Num(20))>>),
      rental_income |-> MissingTable,
      rental_revenue |-> r] : r \in {MissingTable, Table(<<SumRow(Null, Num(90))>>)}}
StoredOp(i, category, amt) == [id |-> i, category |-> category, amount |-> Num(amt)]
LoadStages == {"none", "aircraft", "role", "entries", "benchmark"}

InitMx ==
    /\ dbRates = <<>>
    /\ dbLogs = <<>>
    /\ dbMaintenance \in TablesOf(EntryCandidates, MaxEntries)
    /\ nextLogId = 1
    /\ today = 20250601
    /\ myRole = "owner"
    /\ dbBenchmarks \in BenchmarkTables
    /\ dbSums \in SumTables
    /\ dbMember \in {NoRole, "owner", "member"}
    /\ dbAircraft = TheAircraft
    /\ dbSettings = Null
    /\ dbOp = <<>>
    /\ tzWest = FALSE
    /\ InitPage
    /\ InitPanel
    /\ InitAircraft
    /\ InitSite

NextMx ==
    \/ \E stage \in LoadStages : loadAll(stage)
    \/ \E s \in BOOLEAN, o \in BOOLEAN : allInLoad(s, o)

SpecMx == InitMx /\ [][NextMx]_vars

\* The Monthly Spend section and its chart over stored maintenance entries
MaxChartEntries == 3
StoredCategorised(i, date, cat, amt, tach) ==
    [id |-> i, entry_date |-> date, category |-> cat, amount |-> amt,
     tach_hours |-> tach]
ChartCandidates ==
    {StoredCategorised(0, 20250601, "Annual", Num(100), Num(3)),
     StoredCategorised(0, 20250101, "Annual", Num(40), Num(4)),
     StoredCategorised(0, NoDate, "Oil", Num(30), Num(5)),
     StoredCategorised(0, 20250615, NoCategory, Num(25), Num(5)),
     StoredCategorised(0, 20240229, "Oil", Null, Null)}
SpendMonthChoices == {0, 5}

InitChart ==
    /\ dbRates = <<>>
    /\ dbLogs = <<>>
    /\ dbMaintenance \in TablesOf(ChartCandidates, MaxChartEntries)
    /\ nextLogId = 1
    /\ today = 20250601
    /\ myRole = "owner"
    /\ dbBenchmarks = <<>>
    /\ dbSums = [t \in {"operating_expenses", "operating_costs", "rental_income",
                        "rental_revenue"} |-> MissingTable]
    /\ dbMember = "owner"
    /\ dbAircraft = TheAircraft
    /\ dbSettings = Null
    /\ dbOp = <<>>
    /\ tzWest \in BOOLEAN
    /\ InitPage
    /\ InitPanel
    /\ InitAircraft
    /\ InitSite

NextChart ==
    \/ \E stage \in LoadStages : loadAll(stage)
    \/ \E v \in {"all", "year", "month"} : setSpendView(v)
    \/ \E y \in YearChoices : setSpendYear(y)
    \/ \E m \in SpendMonthChoices : setSpendMonth(m)
    \/ \E v \in {"all", "year", "month"} : setChartView(v)

SpecChart == InitChart /\ [][NextChart]_vars

\* The trend chart over stored maintenance entries of this month, of this year
\* and of last year, one at the lowest tach value and one without an amount
MaxTrendEntries == 3
TrendCandidates ==
    {StoredCategorised(0, 20240310, "Annual", Num(100), Num(10)),
     StoredCategorised(0, 20250105, "Oil", Num(50), Num(20)),
     StoredCategorised(0, 20250603, "Oil", Num(30), Num(30)),
     StoredCategorised(0, 20250610, "Oil", Num(20), Num(10)),
     StoredCategorised(0, 20250612, "Oil", Null, Num(40)),
     StoredCategorised(0, 20250620, "Oil", Num(0), Num(20))}

InitTrend ==
    /\ dbRates = <<>>
    /\ dbLogs = <<>>
    /\ dbMaintenance \in TablesOf(TrendCandidates, MaxTrendEntries)
    /\ nextLogId = 1
    /\ today = 20250601
    /\ myRole = "owner"
    /\ dbBenchmarks = <<>>
    /\ dbSums = [t \in {"operating_expenses", "operating_costs", "rental_income",
                        "rental_revenue"} |-> MissingTable]
    /\ dbMember = "owner"
    /\ dbAircraft = TheAircraft
    /\ dbSettings = Null
    /\ dbOp = <<>>
    /\ tzWest = FALSE
    /\ InitPage
    /\ InitPanel
    /\ InitAircraft
    /\ InitSite

NextTrend ==
    \/ \E stage \in {"none", "entries"} : loadAll(stage)
    \/ \E v \in {"all", "year", "month"} : setTrendView(v)

SpecTrend == InitTrend /\ [][NextTrend]_vars

\* Both pages rendering over stored rates, logs and maintenance entries
MaxRenderEntries == 2
StoredRate(i, date, r) == [id |-> i, effective_from |-> date, hourly_rate |-> Num(r)]
StoredRateTables ==
    {<<>>, <<StoredRate(1, 20250701, 200), StoredRate(2, 20250101, 100)>>}

InitRender ==
    /\ dbRates \in StoredRateTables
    /\ dbLogs \in StoredLogTables
    /\ dbMaintenance \in TablesOf(EntryCandidates, MaxRenderEntries)
    /\ nextLogId = Len(dbLogs) + 1
    /\ today = 20250601
    /\ myRole = "owner"
    /\ dbBenchmarks = <<>>
    /\ dbSums = [t \in {"operating_expenses", "operating_costs", "rental_income",
                        "rental_revenue"} |-> MissingTable]
    /\ dbMember = "owner"
    /\ dbAircraft = TheAircraft
    /\ dbSettings = Null
    /\ dbOp = <<>>
    /\ tzWest = FALSE
    /\ InitPage
    /\ InitPanel
    /\ InitAircraft
    /\ InitSite

NextRender ==
    \/ \E ok \in BOOLEAN : load(ok)
    \/ \E stage \in LoadStages : loadAll(stage)
    \/ \E v \in {"month", "year", "all"} : setView(v)
    \/ renderPanel
    \/ renderAircraft

SpecRender == InitRender /\ [][NextRender]_vars

\* Both pages over stored rows with missing and non-finite numbers
MaxBadEntries == 2
StoredValueLog(i, date, h, r) ==
    [id |-> i, rental_date |-> date, hours |-> h, hourly_rate |-> r]
BadLogCandidates ==
    {StoredValueLog(0, 20250305, Num(2), Num(150)),
     StoredValueLog(0, 20250305, Null, Num(150)),
     StoredValueLog(0, 20250710, Num(1), Infinity(FALSE))}
BadEntryCandidates ==
    {StoredMx(0, 20250305, Num(66), Num(3)), StoredMx(0, 20250710, Infinity(FALSE), Num(5)),
     StoredMx(0, NoDate, Null, Null)}

InitBad ==
    /\ dbRates = <<>>
    /\ dbLogs \in TablesOf(BadLogCandidates, MaxBadEntries)
    /\ dbMaintenance \in TablesOf(BadEntryCandidates, MaxBadEntries)
    /\ nextLogId = Len(dbLogs) + 1
    /\ today = 20250601
    /\ myRole = "owner"
    /\ dbBenchmarks = <<>>
    /\ dbSums = [t \in {"operating_expenses", "operating_costs", "rental_income",
                        "rental_revenue"} |-> MissingTable]
    /\ dbMember = "owner"
    /\ dbAircraft = TheAircraft
    /\ dbSettings = Null
    /\ dbOp = <<>>
    /\ tzWest = FALSE
    /\ InitPage
    /\ InitPanel
    /\ InitAircraft
    /\ InitSite

NextBad ==
    \/ \E ok \in BOOLEAN : load(ok)
    \/ \E stage \in LoadStages : loadAll(stage)
    \/ \E v \in {"month", "year", "all"} : setView(v)

SpecBad == InitBad /\ [][NextBad]_vars

\* The add form and the edit form of the aircraft page over stored entries
MaxFormEntries == 1
IsoText == <<"2", "0", "2", "5", "-", "0", "3", "-", "0", "5">>
\* what is typed into the add form, and into the edit form a row has filled
DateTexts == {<<"3", "/", "5">>}
AmountTexts == {<<"6", "6">>, <<"x">>}
TachTexts == {<<"3">>}
EditDateTexts == {IsoText}
EditAmountTexts == {<<>>, <<"6", "6">>}
EditTachTexts == {<<" ">>, <<"x">>}
FormStages == {"none"}

InitEntry ==
    /\ dbRates = <<>>
    /\ dbLogs = <<>>
    /\ dbMaintenance \in TablesOf({StoredMx(0, 20250305, Num(66), Num(3)),
                                   StoredMx(0, NoDate, Null, Null)}, MaxFormEntries)
    /\ nextLogId = 1
    /\ today = 20250601
    /\ myRole = "owner"
    /\ dbBenchmarks = <<>>
    /\ dbSums = [t \in {"operating_expenses", "operating_costs", "rental_income",
                        "rental_revenue"} |-> MissingTable]
    /\ dbMember = "owner"
    /\ dbAircraft = TheAircraft
    /\ dbSettings = Null
    /\ dbOp = <<>>
    /\ tzWest = FALSE
    /\ InitPage
    /\ InitPanel
    /\ InitAircraft
    /\ InitSite

NextEntry ==
    \/ \E stage \in FormStages : loadAll(stage)
    \/ \E t \in DateTexts : setEntryDate(t)
    \/ \E t \in AmountTexts : setAmount(t)
    \/ \E t \in TachTexts : setTachHours(t)
    \/ Len(dbMaintenance) < MaxFormEntries /\ addEntry
    \/ \E ok \in BOOLEAN, stage \in FormStages : addEntryAnswered(ok, stage)
    \/ \E i \in 1..Len(entries) : startEdit(entries[i])
    \/ cancelEdit
    \/ \E t \in EditDateTexts : setEditDate(t)
    \/ \E t \in EditAmountTexts : setEditAmount(t)
    \/ \E t \in EditTachTexts : setEditTach(t)
    \/ \E i \in 1..Len(entries) : saveEdit(entries[i].id)
    \/ \E ok \in BOOLEAN, stage \in FormStages : saveEditAnswered(ok, stage)

SpecEntry == InitEntry /\ [][NextEntry]_vars

\* The aircraft page opened by users with and without access
MaxAccessEntries == 1
AccessRoles == {NoRole, "admin", "owner", "member"}
AccessStages == {"none", "aircraft", "role", "members", "entries", "benchmark"}

InitAccess ==
    /\ dbRates = <<>>
    /\ dbLogs = <<>>
    /\ dbMaintenance \in TablesOf({StoredMx(0, 20250305, Num(66), Num(3)),
                                   StoredMx(0, NoDate, Null, Null)}, MaxAccessEntries)
    /\ nextLogId = 1
    /\ today = 20250601
    /\ myRole = "owner"
    /\ dbBenchmarks = <<>>
    /\ dbSums = [t \in {"operating_expenses", "operating_costs", "rental_income",
                        "rental_revenue"} |-> MissingTable]
    /\ dbMember \in AccessRoles
    /\ dbAircraft \in {NoAircraft, TheAircraft}
    /\ dbSettings = Null
    /\ dbOp = <<>>
    /\ tzWest = FALSE
    /\ InitPage
    /\ InitPanel
    /\ InitAircraft
    /\ InitSite

NextAccess ==
    \/ \E stage \in AccessStages : loadAll(stage)
    \/ \E role \in AccessRoles : onAuthStateChange(role)

SpecAccess == InitAccess /\ [][NextAccess]_vars

\* The home page adding aircraft
MaxFleet == 2
YearTexts == {<<>>, <<"1", "9", "7", "8">>, <<"x">>}
AddStages == {"none", "aircraft", "members"}

InitFleet ==
    /\ dbRates = <<>>
    /\ dbLogs = <<>>
    /\ dbMaintenance = <<>>
    /\ nextLogId = 1
    /\ today = 20250601
    /\ myRole = "owner"
    /\ NoAircraftTables
    /\ InitPage
    /\ InitPanel
    /\ InitAircraft
    /\ dbFleet = <<>>
    /\ dbMemberships = {}
    /\ homeUserId \in {NoUser, TheUser}
    /\ homeIsAdmin \in BOOLEAN
    /\ homeAircraft = <<>>
    /\ homeLoading = TRUE
    /\ homeError = NoErr
    /\ homeSaving = FALSE
    /\ homeYear = <<>>
    /\ InitMembers
    /\ InitInvite

NextFleet ==
    \/ \E ok \in BOOLEAN : loadAircraft(ok)
    \/ \E t \in YearTexts : setYear(t)
    \/ /\ Len(dbFleet) < MaxFleet
       /\ \E stage \in AddStages, reloadOk \in BOOLEAN : addAircraft(stage, reloadOk)

SpecFleet == InitFleet /\ [][NextFleet]_vars

\* The members panel of one aircraft in two browser sessions
MaxMembers == 2
MemberTables ==
    {{Membership(PanelAircraft, Users[1], "owner")} \cup
         {Membership(PanelAircraft, Users[i], "member") : i \in 2..k} : k \in 1..MaxMembers}

InitCrew ==
    /\ dbRates = <<>>
    /\ dbLogs = <<>>
    /\ dbMaintenance = <<>>
    /\ nextLogId = 1
    /\ today = 20250601
    /\ myRole = "owner"
    /\ NoAircraftTables
    /\ InitPage
    /\ InitPanel
    /\ InitAircraft
    /\ dbFleet = <<>>
    /\ dbMemberships \in MemberTables
    /\ InitHome
    /\ panelRole \in [Sessions -> {"owner", "admin", "member"}]
    /\ members = [s \in Sessions |-> <<>>]
    /\ membersErr = [s \in Sessions |-> ""]
    /\ confirmOpen = [s \in Sessions |-> FALSE]
    /\ confirmAction = [s \in Sessions |-> NoAction]
    /\ InitInvite

NextCrew ==
    \/ \E s \in Sessions, ok \in BOOLEAN : loadMembers(s, ok)
    \/ \E s \in Sessions, kind \in {"makeOwner", "remove"}, i \in 1..Len(Users) :
           openConfirm(s, kind, Users[i])
    \/ \E s \in Sessions : cancelConfirm(s)
    \/ \E s \in Sessions, ok \in BOOLEAN, reloadOk \in BOOLEAN : confirm(s, ok, reloadOk)

SpecCrew == InitCrew /\ [][NextCrew]_vars

\* A visitor with an invite link, the login page and a logout elsewhere
InviteTokens == {<<"a", "b">>, <<"a", "&", "b">>}
EmailTexts == {<<"a", "@", "b">>}
PasswordTexts == {<<"1", "2", "3", "4", "5">>, <<"1", "2", "3", "4", "5", "6">>}

InitVisitor ==
    /\ dbRates = <<>>
    /\ dbLogs = <<>>
    /\ dbMaintenance = <<>>
    /\ nextLogId = 1
    /\ today = 20250601
    /\ myRole = "owner"
    /\ NoAircraftTables
    /\ InitPage
    /\ InitPanel
    /\ InitAircraft
    /\ dbFleet = <<>>
    /\ dbMemberships = {}
    /\ InitHome
    /\ InitMembers
    /\ authSession \in BOOLEAN
    /\ location = Url(SlashApp)
    /\ effectPending = FALSE
    /\ inviteLoading = TRUE
    /\ inviteError = NoErr
    /\ acceptCalls = {}
    /\ loginComponent \in {"LoginPage", "LoginClient"}
    /\ loginError = NoErr
    /\ email = <<>>
    /\ password = <<>>
    /\ acceptedTerms = FALSE
    /\ mode = "login"
    /\ busy = FALSE
    /\ authPending = NoRequest
    /\ authCalls = {}

NextVisitor ==
    \/ \E tok \in InviteTokens : openInvite(tok)
    \/ inviteEffect
    \/ \E ok \in BOOLEAN : acceptInvite(ok)
    \/ loginEffect
    \/ \E t \in EmailTexts : setEmail(t)
    \/ \E t \in PasswordTexts : setPassword(t)
    \/ \E b \in BOOLEAN : setAcceptedTerms(b)
    \/ setMode
    \/ handleSubmit
    \/ \E ok \in BOOLEAN, withSession \in BOOLEAN : handleSubmitAnswered(ok, withSession)
    \/ handleLogout

SpecVisitor == InitVisitor /\ [][NextVisitor]_vars

\* A visitor of /login, with or without a session, under each of the three
\* components; next is absent, empty, relative, an absolute URL, a
\* protocol-relative URL or a path of the site
NextValues == {<<>>, <<"a">>, <<"h", ":", "/", "/", "e">>, <<"/", "/", "e">>,
               <<"/", "x">>}
LoginSearches == {<<>>} \cup {NextKey \o <<"=">> \o encodeURIComponent(v) : v \in NextValues}
LoginEmailTexts == {<<"a">>, <<"a", "@", "b">>}

InitLogin ==
    /\ dbRates = <<>>
    /\ dbLogs = <<>>
    /\ dbMaintenance = <<>>
    /\ nextLogId = 1
    /\ today = 20250601
    /\ myRole = "owner"
    /\ NoAircraftTables
    /\ InitPage
    /\ InitPanel
    /\ InitAircraft
    /\ dbFleet = <<>>
    /\ dbMemberships = {}
    /\ InitHome
    /\ InitMembers
    /\ authSession \in BOOLEAN
    /\ location = Url(SlashApp)
    /\ effectPending = FALSE
    /\ inviteLoading = TRUE
    /\ inviteError = NoErr
    /\ acceptCalls = {}
    /\ loginComponent \in {"LoginPage", "LoginClient", "LoginClient/part_001"}
    /\ loginError = NoErr
    /\ email = <<>>
    /\ password = <<>>
    /\ acceptedTerms = FALSE
    /\ mode = "login"
    /\ busy = FALSE
    /\ authPending = NoRequest
    /\ authCalls = {}

NextLogin ==
    \/ \E search \in LoginSearches : openLogin(search)
    \/ loginEffect
    \/ \E t \in LoginEmailTexts : setEmail(t)
    \/ \E t \in PasswordTexts : setPassword(t)
    \/ \E b \in BOOLEAN : setAcceptedTerms(b)
    \/ setMode
    \/ handleSubmit
    \/ \E ok \in BOOLEAN, withSession \in BOOLEAN : handleSubmitAnswered(ok, withSession)
    \/ handleLogout

SpecLogin == InitLogin /\ [][NextLogin]_vars

\* The two modals of page.tsx: rates set and logs entered in any order
MaxModalRates == 2
MaxModalLogs == 1
ModalRateTexts == {<<"a">>, <<"1", "0", "0">>, <<"2", "0", "0">>}
ModalRateDates == {20250101, 20250301}
ModalLogRateTexts == {<<>>, <<"0">>, <<"5">>}
ModalLogHours == {<<>>, <<"2">>}

InitModal ==
    /\ dbRates = <<>>
    /\ dbLogs = <<>>
    /\ dbMaintenance = <<>>
    /\ nextLogId = 1
    /\ today = 20250601
    /\ myRole = "owner"
    /\ InitPage
    /\ InitPanel
    /\ InitAircraft
    /\ InitSite
    /\ NoAircraftTables

NextModal ==
    \/ \E ok \in BOOLEAN : load(ok)
    \/ openRateModal
    \/ closeRateModal
    \/ \E t \in ModalRateTexts, d \in ModalRateDates, i \in BOOLEAN, r \in BOOLEAN :
          Len(dbRates) < MaxModalRates /\ saveRate(t, d, i, r)
    \/ openLogModal
    \/ closeLogModal
    \/ \E t \in ModalLogRateTexts : typeLogRate(t)
    \/ \E h \in ModalLogHours, i \in BOOLEAN, r \in BOOLEAN :
          Len(dbLogs) < MaxModalLogs /\ saveLog(20250305, h, i, r)

SpecModal == InitModal /\ [][NextModal]_vars

\* The per-hour figures: the aircraft page with its all-in cost panel, and the
\* rental panel of page.tsx beside it
MaxCostEntries == 2

InitCost ==
    /\ dbRates = <<>>
    /\ dbLogs = <<StoredLog(1, 20250601, 2, 150)>>
    /\ dbMaintenance \in TablesOf(EntryCandidates, MaxCostEntries)
    /\ nextLogId = Len(dbLogs) + 1
    /\ today = 20250601
    /\ myRole = "owner"
    /\ dbBenchmarks \in BenchmarkTables
    /\ dbSums \in SumTables
    /\ dbMember \in {NoRole, "owner", "member"}
    /\ dbAircraft = TheAircraft
    /\ dbSettings = Null
    /\ dbOp = <<StoredOp(1, "fuel", 30), StoredOp(2, "insurance", 20)>>
    /\ tzWest = FALSE
    /\ InitPage
    /\ InitPanel
    /\ InitAircraft
    /\ InitSite

NextCost ==
    \/ \E stage \in LoadStages : loadAll(stage)
    \/ \E s \in BOOLEAN, o \in BOOLEAN : allInLoad(s, o)
    \/ \E f \in {"include_maintenance", "include_fuel"}, v \in BOOLEAN, ok \in BOOLEAN :
          saveSettings(f, v, ok)
    \/ \E ok \in BOOLEAN : load(ok)

SpecCost == InitCost /\ [][NextCost]_vars

----------------------------------------------------------------------------
(* Rate resolution *)

\* the as-of dates the resolution is probed with
ProbeDates == (RateDates \cup Todays) \ {NoDate}

Rows(s) == {s[i] : i \in 1..Len(s)}
InForce(s, d) == {r \in Rows(s) : r.effective_from <= d}
LatestInForce(s, d) ==
    {r \in InForce(s, d) : \A q \in InForce(s, d) : q.effective_from <= r.effective_from}

\* C1: when some rate held has effective_from <= d, currentRate resolves to a rate
\* held whose effective_from is the greatest among those <= d (never a future
\* one), and the lookup of getRateForDate on the table gives such a row's rate
RateResolutionPicksLatestInForce ==
    \A d \in ProbeDates :
        /\ InForce(rates, d) # {} => currentRate(rates, d) \in LatestInForce(rates, d)
        /\ InForce(dbRates, d) # {} =>
              getRateForDate(dbRates, Null, d)
                  \in {r.hourly_rate : r \in LatestInForce(dbRates, d)}

\* two rates in force on different days and a future one are held, and the
\* current rate is the later of the two in force
RateResolutionWitness ==
    /\ Len(rates) = 3
    /\ Cardinality({r.effective_from : r \in InForce(rates, today)}) = 2
    /\ \E r \in Rows(rates) : r.effective_from > today
    /\ currentRate(rates, today) \in LatestInForce(rates, today)
    /\ currentRate(rates, today) # rates[Len(rates)]

\* C2: with rates held and none in force on d the result is the earliest-dated
\* rate held; with no rates held it is null
RateFallbackIsEarliest ==
    \A d \in ProbeDates :
        /\ rates = <<>> => currentRate(rates, d) = Null
        /\ (rates # <<>> /\ InForce(rates, d) = {}) =>
              \A q \in Rows(rates) :
                  currentRate(rates, d).effective_from <= q.effective_from

----------------------------------------------------------------------------
(* Saving a rate leaves the logs alone *)

IsRateSave ==
    \/ \E t \in FrameRateTexts, d \in FrameRateDates, i \in BOOLEAN, r \in BOOLEAN :
          saveRate(t, d, i, r)
    \/ \E t \in FrameRateTexts, d \in FrameRateDates, i \in BOOLEAN, r \in BOOLEAN :
          submitRate(t, d, i, r)

\* all time, and the year and month buckets of the current year
Buckets ==
    {range("all", 0, 0), range("year", today \div 10000, 0)}
        \cup {range("month", today \div 10000, m) : m \in 0..11}

\* C7: a step of saveRate or submitRate leaves every stored rental log as it was
\* (rate, hours, date), leaves the logs the page holds as they were, and leaves
\* the totals of every month, year and all-time bucket as they were
RateSaveKeepsLogs ==
    [][IsRateSave =>
          /\ dbLogs' = dbLogs
          /\ logs' = logs
          /\ \A b \in Buckets :
                totals(logs', maintenance', b) = totals(logs, maintenance, b)]_vars

\* rates were saved while logs were stored and shown
RateSaveWitness ==
    /\ Len(dbRates) = 2
    /\ Len(rates) = 2
    /\ pCurrentRate # Null
    /\ Len(logs) = 2
    /\ totals(logs, maintenance, range("year", 2025, 0)).revenue = 300
    /\ totals(logs, maintenance, range("month", 2025, 6)).revenue = 0

----------------------------------------------------------------------------
(* The rate snapshot of a log *)

\* C8: no step changes the stored hourly_rate of a log that keeps its rental
\* date, so the rate stays the one captured when the log was created
LogKeepsRateSnapshot ==
    [][\A i \in 1..Len(dbLogs) : \A j \in 1..Len(dbLogs') :
          (dbLogs'[j].id = dbLogs[i].id /\ dbLogs'[j].rental_date = dbLogs[i].rental_date)
              => dbLogs'[j].hourly_rate = dbLogs[i].hourly_rate]_vars

----------------------------------------------------------------------------
(* The monthly series and the range totals *)

YearOf(d) == d \div 10000
Month0Of(d) == ((d \div 100) % 100) - 1

\* the bucket a date falls in, read off the date itself
Inside(d, v, year, month0) ==
    /\ d # NoDate
    /\ v = "all" \/ (YearOf(d) = year /\ (v = "year" \/ Month0Of(d) = month0))

RECURSIVE SumInts(_)
SumInts(s) == IF s = <<>> THEN 0 ELSE Head(s) + SumInts(Tail(s))

\* sum of a value over the elements of a list that satisfy a test
SumWhere(s, Test(_), Value(_)) ==
    SumInts([i \in 1..Len(s) |-> IF Test(s[i]) THEN Value(s[i]) ELSE 0])

SeriesNow == yearSeries(logs, maintenance, view, selectedYear, today)

\* C9: the series has exactly the rows 0..11 in order, for the selected year (the
\* current year in the all view); a month without logs reports hours 0, revenue 0
\* and profitPerHr null, a month without maintenance entries reports spend 0
YearSeriesHasTwelveRows ==
    LET ys == SeriesNow
    IN  /\ ys.year = IF view = "all" THEN YearOf(today) ELSE selectedYear
        /\ DOMAIN ys.rows = 1..12
        /\ \A i \in DOMAIN ys.rows :
              /\ ys.rows[i].month0 = i - 1
              /\ (\A l \in Rows(logs) : ~Inside(l.rental_date, "month", ys.year, i - 1))
                    => /\ ys.rows[i].hours = 0
                       /\ ys.rows[i].revenue = 0
                       /\ ys.rows[i].profitPerHr = Null
              /\ (\A m \in Rows(maintenance) :
                        ~Inside(m.entry_date, "month", ys.year, i - 1))
                    => ys.rows[i].spend = 0

\* the scenario of the spec: 100 spent in March and 50 in July of 2025, a log in
\* March only; the other months are empty
YearSeriesWitness ==
    LET ys == SeriesNow
    IN  /\ ys.year = 2025
        /\ view = "all"
        /\ ys.rows[3].spend = 100 /\ ys.rows[7].spend = 50
        /\ \A i \in (1..12) \ {3, 7} : ys.rows[i].spend = 0
        /\ ys.rows[3].hours = 2
        /\ ys.rows[7].hours = 0 /\ ys.rows[7].profitPerHr = Null

Hours(l) == l.hours.n
Income(l) == l.hours.n * l.hourly_rate.n
Amount(m) == IF m.amount = Null THEN 0 ELSE m.amount.n

\* revenue, spend, hours and profit per hour of a bucket, from the entries
\* dated inside it
BucketIsLocal(t, v, year, month0) ==
    LET InL(l) == Inside(l.rental_date, v, year, month0)
        InM(m) == Inside(m.entry_date, v, year, month0)
        hours == SumWhere(logs, InL, Hours)
        revenue == SumWhere(logs, InL, Income)
        spend == SumWhere(maintenance, InM, Amount)
    IN  /\ t.hours = hours
        /\ t.revenue = revenue
        /\ t.spend = spend
        /\ t.profitPerHr = IF hours > 0 THEN Frac(revenue - spend, hours) ELSE Null

\* C10: the totals of the selected range and each of the 12 monthly rows are the
\* sums over the logs and maintenance entries dated inside that bucket, and
\* profit per hour is (revenue - spend) / hours of that bucket
ProfitPerHourIsPeriodLocal ==
    LET ys == SeriesNow
    IN  /\ BucketIsLocal(totals(logs, maintenance,
                                range(view, selectedYear, selectedMonth0)),
                         view, selectedYear, selectedMonth0)
        /\ \A i \in 1..12 : BucketIsLocal(ys.rows[i], "month", ys.year, i - 1)

\* March 2025 is selected; logs and maintenance lie inside and outside it
PeriodLocalWitness ==
    /\ view = "month" /\ selectedYear = 2025 /\ selectedMonth0 = 2
    /\ \E l \in Rows(logs) : Inside(l.rental_date, "month", 2025, 2)
    /\ \E l \in Rows(logs) : ~Inside(l.rental_date, "month", 2025, 2)
    /\ \E m \in Rows(maintenance) : Inside(m.entry_date, "month", 2025, 2) /\ m.amount # Null
    /\ \E m \in Rows(maintenance) : ~Inside(m.entry_date, "month", 2025, 2) /\ m.amount # Null
    /\ totals(logs, maintenance, range(view, selectedYear, selectedMonth0)).profitPerHr
          = Frac(200, 2)

----------------------------------------------------------------------------
(* The figures of the aircraft page *)

HoursFlownNow == hoursFlown(tachValues(entries))
TotalSpendNow == totalSpend(entries)
CostPerHourNow == costPerHour(HoursFlownNow, TotalSpendNow)
CompareNow == benchmarkCompare(benchmark, CostPerHourNow)
StatusNow == benchmarkStatus(CompareNow)
IncludedCostNow == includedCost(settings, TotalSpendNow, opTotals(op))
AllInNow == allIn(IncludedCostNow, HoursFlownNow)

FiniteTachAt == {i \in 1..Len(entries) : entries[i].tach_hours.k = "num"}
FiniteTachs == {entries[i].tach_hours.n : i \in FiniteTachAt}
Largest(S) == CHOOSE x \in S : \A y \in S : y <= x
Smallest(S) == CHOOSE x \in S : \A y \in S : x <= y

\* C3: hours flown is never negative, is 0 when fewer than two entries carry a
\* finite tach_hours, and otherwise is the largest finite tach_hours minus the
\* smallest, null and non-finite values ignored; reversing the order of the
\* entries does not change it
HoursFlownIsTachSpan ==
    /\ HoursFlownNow >= 0
    /\ Cardinality(FiniteTachAt) < 2 => HoursFlownNow = 0
    /\ Cardinality(FiniteTachAt) >= 2
          => HoursFlownNow = Largest(FiniteTachs) - Smallest(FiniteTachs)
    /\ hoursFlown(tachValues(Reverse(entries))) = HoursFlownNow

\* three entries loaded, the largest tach first, an entry without a finite tach
\* among them, two hours flown
HoursFlownWitness ==
    /\ Len(entries) = 3
    /\ entries[1].tach_hours = Num(5)
    /\ \E i \in 1..3 : entries[i].tach_hours \in {Null, NaN}
    /\ \E i \in 2..3 : entries[i].tach_hours = Num(3)
    /\ HoursFlownNow = 2

\* a per-hour figure of a total over hours: null unless hours > 0, else the
\* quotient total / hours
IsPerHour(value, total, hours) ==
    IF hours > 0 THEN value = Frac(total, hours) ELSE value = Null

\* C4: maintenance cost, operating cost, rental income and all-in cost per hour
\* of the aircraft page and profit per hour of the rental panel are null when
\* their hours are not positive and total / hours otherwise; none is NaN or
\* infinite
PerHourIsNullWithoutHours ==
    LET t == totals(logs, maintenance, range(view, selectedYear, selectedMonth0))
    IN  /\ IsPerHour(CostPerHourNow, TotalSpendNow, HoursFlownNow)
        /\ IsPerHour(operatingPerHour(HoursFlownNow, operatingTotalAllTime),
                     operatingTotalAllTime, HoursFlownNow)
        /\ IsPerHour(rentalPerHour(HoursFlownNow, rentalTotalAllTime),
                     rentalTotalAllTime, HoursFlownNow)
        /\ IsPerHour(AllInNow, IncludedCostNow, HoursFlownNow)
        /\ IsPerHour(t.profitPerHr, t.profit, t.hours)

\* money spent and no hours flown on the aircraft page, while the rental panel
\* shows logged hours
PerHourWitness ==
    /\ ~mxLoading /\ ~aiLoading /\ ~loading
    /\ HoursFlownNow = 0 /\ TotalSpendNow > 0 /\ operatingTotalAllTime > 0
    /\ IncludedCostNow > 0
    /\ totals(logs, maintenance, range(view, selectedYear, selectedMonth0)).hours > 0

\* C5: the comparison is null exactly when no benchmark is loaded, its hourly
\* cost is <= 0 or the cost per hour is null; otherwise diff is the cost per
\* hour minus the benchmark, pct is diff / benchmark * 100, pct has the sign of
\* diff, and above holds exactly when diff > 0
BenchmarkCompareIsRelativeDifference ==
    LET cmp == CompareNow
        spend == TotalSpendNow
        hrs == HoursFlownNow
    IN  /\ (cmp = Null) <=> (benchmark = Null \/ benchmark.hourly_cost <= 0
                                \/ CostPerHourNow = Null)
        /\ cmp # Null =>
              LET b == benchmark.hourly_cost
              IN  /\ cmp.diff.den # 0 /\ cmp.pct.den # 0
                  /\ cmp.diff.num * hrs = (spend - b * hrs) * cmp.diff.den
                  /\ cmp.pct.num * (b * hrs) = (spend - b * hrs) * 100 * cmp.pct.den
                  /\ FracSign(cmp.pct) = FracSign(cmp.diff)
                  /\ cmp.above <=> (spend > b * hrs)

\* 50 spent over one hour against a benchmark of 60: below the benchmark
BenchmarkCompareWitness ==
    /\ benchmark # Null
    /\ benchmark.hourly_cost = 60
    /\ TotalSpendNow = 50 /\ HoursFlownNow = 1
    /\ CompareNow # Null
    /\ ~CompareNow.above
    /\ FracSign(CompareNow.pct) = -1

\* C6: the status is null exactly when the comparison is null; otherwise its
\* label is On track when |pct| <= 10, Watch when 10 < |pct| <= 25 and High when
\* |pct| > 25
BenchmarkStatusBands ==
    LET cmp == CompareNow
        st == StatusNow
    IN  /\ (st = Null) <=> (cmp = Null)
        /\ cmp # Null =>
              LET a == FracAbs(cmp.pct)
              IN  /\ st.label \in {"On track", "Watch", "High"}
                  /\ (st.label = "On track") <=> (a.num <= 10 * a.den)
                  /\ (st.label = "Watch") <=> (a.num > 10 * a.den /\ a.num <= 25 * a.den)
                  /\ (st.label = "High") <=> (a.num > 25 * a.den)

\* observed 66 per hour against a benchmark of 60: pct is 10 and the status is
\* On track
BenchmarkStatusWitness ==
    /\ benchmark # Null
    /\ benchmark.hourly_cost = 60
    /\ HoursFlownNow > 0
    /\ TotalSpendNow = 66 * HoursFlownNow
    /\ CompareNow.pct.num = 10 * CompareNow.pct.den
    /\ StatusNow.label = "On track"

----------------------------------------------------------------------------
(* Ranges that contain one another *)

\* the ranges the view can select, and ranges between the dates of the entries
PresetRanges ==
    {range(v, y, m) : v \in {"month", "year", "all"}, y \in YearChoices,
                      m \in {1, 2, 6}}
ProbeRanges ==
    PresetRanges \cup {[start |-> 20250305, end |-> 20250710],
                       [start |-> 20250306, end |-> 20250709]}
Contains(outer, inner) == outer.start <= inner.start /\ inner.end <= outer.end
WellFormed(r) == r.start <= r.end

\* C11: for ranges r containing q, the number of logs, the number of maintenance
\* entries, the spend, the hours and the revenue over r are each at least those
\* over q (all stored amounts, hours and rates are non-negative)
TotalsGrowWithRange ==
    \A r \in ProbeRanges, q \in ProbeRanges :
        (WellFormed(r) /\ WellFormed(q) /\ Contains(r, q)) =>
            LET tr == totals(logs, maintenance, r)
                tq == totals(logs, maintenance, q)
            IN  /\ Len(logsInRange(logs, r)) >= Len(logsInRange(logs, q))
                /\ Len(maintenanceInRange(maintenance, r))
                      >= Len(maintenanceInRange(maintenance, q))
                /\ tr.spend >= tq.spend
                /\ tr.hours >= tq.hours
                /\ tr.revenue >= tq.revenue

\* the year 2025 holds strictly more hours and more spend than its March, which
\* holds some
TotalsGrowWitness ==
    LET ty == totals(logs, maintenance, range("year", 2025, 2))
        tm == totals(logs, maintenance, range("month", 2025, 2))
    IN  /\ tm.hours > 0 /\ tm.spend > 0
        /\ ty.hours > tm.hours /\ ty.spend > tm.spend /\ ty.revenue > tm.revenue

----------------------------------------------------------------------------
(* The All Time view *)

\* C12: in the all view every log and every maintenance entry held is counted,
\* the entries without a date included, and the spend is the sum of the amounts
\* of all maintenance entries
AllViewCountsEveryEntry ==
    view = "all" =>
        LET r == range(view, selectedYear, selectedMonth0)
        IN  /\ Len(logsInRange(logs, r)) = Len(logs)
            /\ Len(maintenanceInRange(maintenance, r)) = Len(maintenance)
            /\ totals(logs, maintenance, r).spend = SumAmount(maintenance)

----------------------------------------------------------------------------
(* The category breakdown of the chart *)

ChartEntriesNow ==
    monthlySpendEntries(entries, spendView, spendYear, spendMonth, tzWest)
FilteredNow == filtered(ChartEntriesNow, chartView, today)
LabelOf(e) == IF e.category = NoCategory THEN "Other" ELSE e.category

\* C13: the breakdown has one label per category of the selected entries, Other
\* standing for no category; each label carries the sum of the amounts of its
\* entries, a null amount counting 0; the total is the sum of the amounts of the
\* selected entries and the entry count is their number
CategoryTotalsAddUp ==
    LET fs == FilteredNow
        map == totalsByCategory(fs)
    IN  /\ DOMAIN map = {LabelOf(fs[i]) : i \in 1..Len(fs)}
        /\ \A c \in DOMAIN map :
              map[c] = SumInts([i \in 1..Len(fs) |->
                                   IF LabelOf(fs[i]) = c /\ fs[i].amount # Null
                                   THEN fs[i].amount.n ELSE 0])
        /\ chartTotal(map) = SumInts([i \in 1..Len(fs) |->
                                         IF fs[i].amount # Null THEN fs[i].amount.n
                                         ELSE 0])
        /\ entryCount(fs) = Cardinality({i \in 1..Len(ChartEntriesNow) :
                                            /\ ChartEntriesNow[i].entry_date # NoDate
                                            /\ (chartView = "all" \/
                                                YearOf(ChartEntriesNow[i].entry_date)
                                                   = YearOf(today))
                                            /\ (chartView = "month" =>
                                                Month0Of(ChartEntriesNow[i].entry_date)
                                                   = Month0Of(today))})

\* this year's entries: two of one category, and one without a category summed
\* under Other
CategoryTotalsWitness ==
    LET fs == FilteredNow
        map == totalsByCategory(fs)
    IN  /\ chartView = "year"
        /\ Len(fs) = 3
        /\ DOMAIN map = {"Annual", "Other"}
        /\ map["Annual"] = 140 /\ map["Other"] = 25
        /\ chartTotal(map) = 165

----------------------------------------------------------------------------
(* Aggregation and its inputs *)

\* C14: a render leaves the rates, logs, maintenance entries and aircraft
\* entries held as they were, in content and order, and what it computed is what
\* computing again from the arrays it left would give
AggregationKeepsInputs ==
    [][(renderPanel \/ renderAircraft) =>
          /\ rates' = rates
          /\ logs' = logs
          /\ maintenance' = maintenance
          /\ entries' = entries
          /\ renderPanel =>
                /\ memo'.currentRate = currentRate(rates', today')
                /\ memo'.logRows =
                      LET shown == SortDesc(logsInRange(logs', range(view', selectedYear',
                                                                     selectedMonth0')),
                                            "rental_date")
                      IN  [i \in 1..Len(shown) |-> shown[i].id]
          /\ renderAircraft => memo'.tachValues = tachValues(entries')]_vars

\* rendered: the log table lists the two logs latest first while the logs held
\* are earliest first, and the tach values are ascending while the entries held
\* carry them descending
AggregationWitness ==
    /\ Len(logs) = 2 /\ logs[1].rental_date < logs[2].rental_date
    /\ memo.logRows = <<logs[2].id, logs[1].id>>
    /\ Len(rates) = 2 /\ memo.currentRate = rates[1]
    /\ Len(entries) = 2
    /\ entries[1].tach_hours = Num(5) /\ entries[2].tach_hours = Num(3)
    /\ memo.tachValues = <<3, 5>>

----------------------------------------------------------------------------
(* Missing and non-finite numbers *)

\* C15: the total spend of the aircraft page and the hours, revenue and spend of
\* the range shown by the rental panel are finite numbers, whatever the amounts,
\* hours and rates of the rows held
TotalsAreFinite ==
    LET r == range(view, selectedYear, selectedMonth0)
    IN  /\ totalSpendValue(entries).k = "num"
        /\ hoursValue(logsInRange(logs, r)).k = "num"
        /\ revenueValue(logsInRange(logs, r)).k = "num"
        /\ spendValue(maintenanceInRange(maintenance, r)).k = "num"

----------------------------------------------------------------------------
(* The entry forms *)

\* the fields the claim says are turned down
TurnedDown(amountText, tachText, dateText) ==
    \/ FieldNumber(amountText) # Null /\ FieldNumber(tachText) = Null
    \/ FieldNumber(amountText) = NaN
    \/ FieldNumber(tachText) = NaN
    \/ Trim(dateText) # <<>> /\ ~IsoShape(Trim(dateText))

ValidationMessages ==
    {"Amount must be a number.", "Tach Hours must be a number.",
     "Tach hours are required when entering a cost.",
     "Date must be YYYY-MM-DD (or leave blank)."}

HasTachWhenAmount(row) == row.amount # Null => row.tach_hours # Null

----------------------------------------------------------------------------
(* Access to the aircraft page *)

\* C17: a loadAll that finds the aircraft and, without a backend error, finds the
\* user neither in app_admins nor among the members ends with no aircraft, no
\* entries, no role, the no-access error and no query sent for the maintenance
\* entries; the entries have only been queried by a loadAll that found the role
\* admin, owner or member
AccessGuard ==
    /\ [](ENTRIES_READ \in queried => mxRole \in {"admin", "owner", "member"})
    /\ [][(mxLoading /\ ~mxLoading' /\ ENTRIES_READ \in queried')
          => dbMember \in {"admin", "owner", "member"} /\ mxRole' = dbMember]_vars
    /\ [][(/\ mxLoading /\ ~mxLoading'
           /\ dbAircraft # NoAircraft
           /\ dbMember = NoRole
           /\ mxError' # BackendError)
          => /\ aircraft' = NoAircraft
             /\ entries' = <<>>
             /\ mxRole' = NoRole
             /\ mxError' = "You don't have access to this aircraft."
             /\ ENTRIES_READ \notin queried']_vars

AccessWitness ==
    /\ ~mxLoading
    /\ dbMember = NoRole
    /\ mxError = "You don't have access to this aircraft."
    /\ aircraft = NoAircraft
    /\ entries = <<>>
    /\ mxRole = NoRole
    /\ dbMaintenance # <<>>
    /\ queried = {"aircraft", "app_admins", "aircraft_members"}

----------------------------------------------------------------------------
(* Aircraft and their owners *)

\* C18: every row of table aircraft has a row of aircraft_members that gives the
\* user who created it the role owner, after every run of addAircraft, those that
\* end with an error included
AircraftHasOwnerMembership ==
    \A i \in 1..Len(dbFleet) :
        Membership(dbFleet[i].id, dbFleet[i].user_id, "owner") \in dbMemberships

----------------------------------------------------------------------------
(* The owner of an aircraft *)

\* C19: no step deletes the aircraft_members row of the user who is the owner
\* when the step is taken, whatever the order of the transfers and removals the
\* sessions confirm and however old the list a session confirms from
OwnerIsNeverRemoved ==
    [][\A m \in dbMemberships :
           m.role = "owner" => \E n \in dbMemberships' : n.user_id = m.user_id]_vars

----------------------------------------------------------------------------
(* Invite links *)

\* the next parameter of the login page
NextParam == SearchGet(location.search, NextKey)

\* the effect of the invite page sends a visitor without a session to /login with
\* next naming the invite
InviteRedirectsToLogin ==
    [][(inviteEffect /\ ~authSession)
       => location'.path = SlashLogin
          /\ SearchGet(location'.search, NextKey) = location.path]_vars

\* the login page, once there is a session, goes to the invite that next names
LoginReturnsToInvite ==
    [][(/\ loginEffect
           \/ \E ok, withSession \in BOOLEAN : handleSubmitAnswered(ok, withSession)
        /\ OnLogin
        /\ authPending # NoRequest => authPending.mounted
        /\ location' # location
        /\ startsWith(NextParam, SlashInvite))
       => location' = [path |-> NextParam, search |-> <<>>]]_vars

\* C20: a visitor without a session who opens an invite is sent to /login with
\* next = /invite/<token>; the login page, after a login or with a session already
\* there, goes to /invite/<token>; and the backend receives no call of
\* accept_aircraft_invite made without a session
InviteSurvivesLogin ==
    /\ InviteRedirectsToLogin
    /\ LoginReturnsToInvite
    /\ [](\A c \in acceptCalls : c.authenticated)

----------------------------------------------------------------------------
(* The login page *)

\* a path of the site: it starts with one / and not with //
IsInternal(t) == startsWith(t, <<"/">>) /\ ~startsWith(t, <<"/", "/">>)

\* a step in which the login page shown calls router.replace: its mount effect
\* with a session, or its form after the answer of supabase.auth
LoginRedirects ==
    /\ OnLogin
    /\ \/ loginEffect /\ authSession
       \/ /\ authPending # NoRequest
          /\ authPending.mounted
          /\ \E withSession \in BOOLEAN :
                 /\ redirectsAfter(authPending.op, withSession)
                 /\ handleSubmitAnswered(TRUE, withSession)

\* C21: whatever the next parameter is (absent, empty, relative, an absolute
\* URL, starting with //), the target the login page passes to router.replace
\* starts with one / and not with //, and it is /app when the parameter is absent
\* or is not such a path
LoginRedirectsInside ==
    [][LoginRedirects
       => /\ IsInternal(location'.path)
          /\ (NextParam = NoParam \/ ~IsInternal(NextParam))
                 => location' = Url(SlashApp)]_vars

\* what the form asks of a submission
HasAt(t) == "@" \in {t[i] : i \in 1..Len(t)}
FormAcceptable ==
    /\ HasAt(email)
    /\ Len(password) >= 6
    /\ mode = "signup" => acceptedTerms

LoginMessages == {"Enter a valid email.", "Password must be at least 6 characters.",
                  "You must accept the Terms of Service to continue."}

\* C22: handleSubmit calls supabase.auth only with an email that contains @ and
\* a password of 6 characters or more, and signUp only with the terms accepted;
\* a submission turned down reports a message, makes no call, redirects nowhere
\* and leaves busy false; busy is true only while a call of the form shown is
\* awaited; and the form redirects only in the step that takes an answer
\* without error
LoginFormIsGated ==
    /\ [](\A c \in authCalls :
              /\ HasAt(c.email)
              /\ Len(c.password) >= 6
              /\ c.op = "signUp" => c.acceptedTerms)
    /\ [](busy => authPending # NoRequest /\ authPending.mounted)
    /\ [][(handleSubmit /\ ~FormAcceptable)
          => /\ loginError' \in LoginMessages
             /\ ~busy'
             /\ UNCHANGED <<location, authCalls, authPending, authSession>>]_vars
    /\ [][handleSubmit => UNCHANGED <<location, authSession>>]_vars
    /\ [][\A withSession \in BOOLEAN :
              handleSubmitAnswered(FALSE, withSession)
                  => UNCHANGED <<location, authSession>>]_vars
    /\ [][(\E ok, withSession \in BOOLEAN : handleSubmitAnswered(ok, withSession))
          => ~busy']_vars

\* a sign-up was turned down for the terms after a call had been made
LoginFormWitness ==
    /\ OnLogin
    /\ loginError = "You must accept the Terms of Service to continue."
    /\ ~busy
    /\ \E c \in authCalls : c.op = "signUp"

----------------------------------------------------------------------------
(* The rate field of the Log Rental Hours modal *)

\* the current rate as the field shows it, 0 when no rate is set
CurrentRateText ==
    LET rate == currentRate(rates, today)
    IN  IF rate = Null THEN <<"0">> ELSE String(NumberOr0(rate.hourly_rate))

\* C23: whenever the Log Rental Hours modal opens, after any sequence of
\* openings, typing, Cancel or Close, saved logs and saved rates, its rate field
\* shows the current rate of that moment (0 when none is set); and while the
\* modal stays open a value in the field changes only by typing
LogRateDefault ==
    /\ [][openLogModal => logRate' = CurrentRateText]_vars
    /\ [][(showLogModal /\ showLogModal' /\ logRate # <<>> /\ logRate' # logRate)
          => \E t \in ModalLogRateTexts : typeLogRate(t)]_vars

----------------------------------------------------------------------------
(* The cost-per-hour trend *)

\* the entries held that have an amount, a tach value and a date, by position
UsableAt == {i \in 1..Len(entries) : /\ IsNum(entries[i].amount)
                                     /\ IsNum(entries[i].tach_hours)
                                     /\ entries[i].entry_date # NoDate}
TachAt(i) == entries[i].tach_hours.n
LowestTach == CHOOSE t \in {TachAt(i) : i \in UsableAt} : \A j \in UsableAt : t <= TachAt(j)

\* position i comes no later than position j in tach order
UpTo(i, j) == TachAt(i) < TachAt(j) \/ (TachAt(i) = TachAt(j) /\ i <= j)

RECURSIVE SumAmountsAt(_)
SumAmountsAt(S) ==
    IF S = {} THEN 0
    ELSE LET i == CHOOSE x \in S : TRUE
         IN  entries[i].amount.n + SumAmountsAt(S \ {i})

\* the all-time value of the entry at position i: the amounts of the usable
\* entries up to it in tach order over its tach less the lowest usable tach
AllTimePoint(i) ==
    [label |-> [month |-> ((entries[i].entry_date \div 100) % 100) - 1,
                day |-> entries[i].entry_date % 100,
                tach |-> TachAt(i)],
     cph |-> Frac(SumAmountsAt({j \in UsableAt : UpTo(j, i)}), TachAt(i) - LowestTach)]

\* the entries of the view: all of them, those of this year, those of this month
OfView(i, v) ==
    \/ v = "all"
    \/ v = "year" /\ entries[i].entry_date \div 10000 = today \div 10000
    \/ v = "month" /\ entries[i].entry_date \div 100 = today \div 100

\* the positions in tach order
RECURSIVE InTachOrder(_)
InTachOrder(S) ==
    IF S = {} THEN <<>>
    ELSE LET i == CHOOSE x \in S : \A y \in S : UpTo(x, y)
         IN  <<i>> \o InTachOrder(S \ {i})

ExpectedPoints(v) ==
    IF Cardinality(UsableAt) < 2 THEN <<>>
    ELSE LET order == InTachOrder({i \in UsableAt : TachAt(i) > LowestTach /\ OfView(i, v)})
         IN  [k \in 1..Len(order) |-> AllTimePoint(order[k])]

RECURSIVE IsSubsequence(_, _)
IsSubsequence(s, t) ==
    IF s = <<>> THEN TRUE
    ELSE IF t = <<>> THEN FALSE
    ELSE IF Head(s) = Head(t) THEN IsSubsequence(Tail(s), Tail(t))
    ELSE IsSubsequence(s, Tail(t))

\* C24: in every view the points of the trend chart are, in tach order, those
\* of the usable entries of the view whose tach is above the lowest usable tach,
\* each with its all-time value (the amounts of all usable entries up to it in
\* tach order over its tach less the lowest usable tach); the points of the
\* year and month views are a subsequence of those of the all view; and there is
\* no point with fewer than two usable entries
TrendUsesAllTimeBaseline ==
    \A v \in {"all", "year", "month"} :
        /\ points(entries, v, today) = ExpectedPoints(v)
        /\ IsSubsequence(points(entries, v, today), points(entries, "all", today))
        /\ Cardinality(UsableAt) < 2 => points(entries, v, today) = <<>>

\* the month view shows a point of this month, fewer points than the all view,
\* and entries of before this month count in its value
TrendWitness ==
    /\ trendView = "month"
    /\ Len(points(entries, trendView, today)) >= 1
    /\ Len(points(entries, trendView, today)) < Len(points(entries, "all", today))
    /\ points(entries, trendView, today) # pointsOfViewOnly(entries, trendView, today)

----------------------------------------------------------------------------
(* The months of the year *)

\* the monthly rows whose start..end holds a date
RowsHolding(date) ==
    {i \in 1..12 : SeriesNow.rows[i].start <= date /\ date <= SeriesNow.rows[i].end}

RECURSIVE SumOfRows(_, _)
SumOfRows(field, n) ==
    IF n = 0 THEN 0 ELSE SeriesNow.rows[n][field] + SumOfRows(field, n - 1)

\* C25: no log and no maintenance entry lies in two of the 12 monthly rows,
\* each one dated in the year of the series lies in exactly one, and the hours,
\* revenue and spend of the 12 rows add up to those of the year view of that
\* year
MonthsPartitionYear ==
    LET ofYear == totals(logs, maintenance, range("year", SeriesNow.year, selectedMonth0))
        dates == {l.rental_date : l \in Rows(logs)} \cup {m.entry_date : m \in Rows(maintenance)}
    IN  /\ \A d \in dates : Cardinality(RowsHolding(d)) <= 1
        /\ \A d \in dates : d \div 10000 = SeriesNow.year => Cardinality(RowsHolding(d)) = 1
        /\ SumOfRows("hours", 12) = ofYear.hours
        /\ SumOfRows("revenue", 12) = ofYear.revenue
        /\ SumOfRows("spend", 12) = ofYear.spend

\* 2025 is shown with logs on the last day of January and the first of February
\* and a maintenance entry of another year
MonthsPartitionWitness ==
    /\ view = "year" /\ selectedYear = 2025
    /\ SeriesNow.rows[1].hours = 2
    /\ SeriesNow.rows[2].hours = 3
    /\ \E m \in Rows(maintenance) : m.entry_date \div 10000 = 2024
    /\ \E m \in Rows(maintenance) : m.entry_date \div 10000 = 2025

====
